---- MODULE Spec2Model ----
(***************************************************************************)
(* Model of the trend-following scanner:                                   *)
(*   - scanner_core.calculate_signals / score_stock, evaluated at the      *)
(*     final bar of a price series (specification Spec);                   *)
(*   - the same scorer run on two symbols in a row (SpecPair);             *)
(*   - update_daily.get_investor_data, the two-tier retry chain            *)
(*     (SpecInvestor, FairSpecInvestor);                                   *)
(*   - merge_chunks.main and app.load_data, the merge of the partial       *)
(*     result files (SpecMerge).                                           *)
(*                                                                         *)
(* Prices, volumes and indicator values are integers.  Python floats are   *)
(* kept exact as rationals (a stop is carried in hundredths, a risk as a   *)
(* numerator/denominator pair); the places where IEEE-754 rounding changes *)
(* a comparison are modelled explicitly (risk_pct_pct_le).                 *)
(***************************************************************************)
EXTENDS Integers, Sequences, FiniteSets, TLC

VARIABLES
    pc,        \* position of the function under study: "input" | "done" | ...
    inp,       \* its arguments (for score_stock: final-bar values of df / sig)
    res,       \* what it returned (NoRecord before the call)
    prev,      \* what an earlier call gave (SpecPair, SpecRisk, SpecRescore)
    ipc,       \* get_investor_data: position in the retry chain
    attempt,   \* get_investor_data: loop variable `attempt` of the current tier
    calls,     \* get_investor_data: attempts made, per source
    failed,    \* get_investor_data: tiers left without a record
    sleeps,    \* get_investor_data: time.sleep(1) calls made, per source
    inv,       \* get_investor_data: the returned record (NoInv before return)
    source,    \* get_investor_data: which return statement produced inv
    todo,      \* update_daily.main STEP2: candidates still to be looked up
    log,       \* get_investor_data: source and outcome of each attempt so far
    files,     \* merge: the partial result files, in sorted path order
    merged,    \* merge: the merged output rows (<<>> before the merge)
    mpc,       \* merge: "ready" | "merged" | "loaded" | "skipped" | "none"
    sig,       \* the signal set calculate_signals returned (<<>> before the call)
    chunk_stocks,   \* update_daily.main: number of symbols of the shard
    fetched,        \* main STEP1: what the price fetch gave, per symbol visited
    tech_results,   \* main STEP1: rows of the symbols that passed
    final_results,  \* main STEP2: rows with supply and news added
    out,            \* main: the shard's output file (NoFile before it is written)
    spc             \* main: "step1" | "step2" | "written" | "raised"

vars == <<pc, inp, res, prev, ipc, attempt, calls, failed, sleeps, inv, source,
          todo, log, files, merged, mpc, sig, chunk_stocks, fetched, tech_results,
          final_results, out, spc>>

scoreVars == <<pc, inp, res, prev, sig>>
scanVars == <<chunk_stocks, fetched, tech_results, final_results, out, spc>>
investorVars == <<ipc, attempt, calls, failed, sleeps, inv, source, todo, log>>
mergeVars == <<files, merged, mpc>>

Max(a, b) == IF a >= b THEN a ELSE b
Min(a, b) == IF a <= b THEN a ELSE b

(***************************************************************************)
(* numpy.nan: the value of an indicator inside its warm-up window.         *)
(***************************************************************************)
NaN == -999999

notna(x) == x # NaN

(***************************************************************************)
(* Bounds of the model.                                                    *)
(***************************************************************************)
MaxPrice == 104
MaxConsec == 6

(***************************************************************************)
(* Configuration defaults (cfg.get(..., default)).                         *)
(***************************************************************************)
vol_confirm_mult_x10 == 15
adx_min == 20

(***************************************************************************)
(* calculate_signals, final bar.  i is the record of final-bar values.     *)
(* A comparison with NaN is False in pandas.                               *)
(***************************************************************************)
door_knock(i) ==
    /\ notna(i.upper)
    /\ 100 * i.close >= 95 * i.upper
    /\ 100 * i.close <= 102 * i.upper

squeeze(i) == notna(i.bbw_pct) /\ i.bbw_pct <= 20

vol_confirm(i) ==
    notna(i.vol_ma20) /\ 10 * i.vol >= vol_confirm_mult_x10 * i.vol_ma20

vol_explosion_today(i) == notna(i.vol_ma20) /\ i.vol >= 3 * i.vol_ma20

adx_ok(i) == notna(i.adx) /\ i.adx >= adx_min

breakout_60(i) == notna(i.upper) /\ i.close > i.upper

setup_a(i) == squeeze(i) /\ breakout_60(i) /\ vol_confirm(i) /\ adx_ok(i)

setup_b(i) ==
    notna(i.climax_high) /\ i.close > i.climax_high /\ vol_confirm(i)

ma20_crossover(i) == notna(i.ma20) /\ i.close > i.ma20 /\ i.prev_le

\* mutant: Trigger-C without the ADX condition
setup_c_noadx(i) == ma20_crossover(i) /\ vol_confirm(i)

setup_c(i) == ma20_crossover(i) /\ vol_confirm(i) /\ adx_ok(i)

(***************************************************************************)
(* score_stock.                                                            *)
(***************************************************************************)
safe_get(val, default) == IF notna(val) THEN val ELSE default

\* mutant: the tiers start one step late (30 earns what 25 should)
adx_score_late(adx_val) ==
    IF adx_val >= 40 THEN 4
    ELSE IF adx_val >= 30 THEN 3
    ELSE IF adx_val >= 25 THEN 2
    ELSE 0

adx_score(adx_val) ==
    IF adx_val >= 40 THEN 5
    ELSE IF adx_val >= 30 THEN 4
    ELSE IF adx_val >= 25 THEN 3
    ELSE IF adx_val >= 20 THEN 2
    ELSE 0

trend_score(i) ==
    LET close == i.close
        ma20 == safe_get(i.ma20, close)
        ma50 == safe_get(i.ma50, close)
        ma200 == safe_get(i.ma200, close)
        adx_val == safe_get(i.adx, 0)
    IN  Min( (IF close > ma20 THEN 5 ELSE 0)
           + (IF close > ma50 THEN 5 ELSE 0)
           + (IF close > ma200 THEN 5 ELSE 0)
           + (IF ma20 > ma50 THEN 3 ELSE 0)
           + (IF ma50 > ma200 THEN 2 ELSE 0)
           + adx_score(adx_val), 25)

setup_pts(i) ==
    IF setup_b(i) THEN 5
    ELSE IF setup_a(i) THEN 4
    ELSE IF setup_c(i) THEN 3
    ELSE 0

rs_pts(i) ==
    (IF i.rs_3m >= 80 THEN 5 ELSE 0) + (IF i.rs_6m >= 80 THEN 5 ELSE 0)

pattern_raw(i) ==
      (IF door_knock(i) THEN 10 ELSE 0)
    + (IF squeeze(i) THEN 10 ELSE 0)
    + setup_pts(i)
    + rs_pts(i)

\* mutant: line 180 (the cap) left out
pattern_score_nocap(i) == pattern_raw(i)

pattern_score(i) == Min(pattern_raw(i), 30)

vol_ratio_ge(i, num, den) ==
    \* vol_ratio >= num/den, vol_ratio = vol / vol_ma20 if vol_ma20 > 0 else 0
    LET vm == safe_get(i.vol_ma20, 1)
    IN  IF vm > 0 THEN den * i.vol >= num * vm ELSE 0 >= num

dryup_pts(i) ==
    LET dryup_count == safe_get(i.dryup_count, 0)
    IN  IF dryup_count >= 5 THEN 7
        ELSE IF dryup_count >= 3 THEN 5
        ELSE IF dryup_count >= 1 THEN 3
        ELSE 0

vol_today_pts(i) ==
    IF vol_confirm(i) THEN 8
    ELSE IF vol_ratio_ge(i, 12, 10) /\ ~vol_ratio_ge(i, 2, 1) THEN 5
    ELSE IF vol_ratio_ge(i, 1, 1) THEN 3
    ELSE 0

explosion_pts(i) ==
    \* sig["vol_explosion"].tail(60).any(): the final bar or one of the 59 before
    IF i.explosion_prior \/ vol_explosion_today(i) THEN 5 ELSE 0

volume_score(i) == Min(explosion_pts(i) + dryup_pts(i) + vol_today_pts(i), 20)

\* mutant: five consecutive foreign buying days earn 10
f_pts_ten(fc) ==
    IF fc >= 5 THEN 10
    ELSE IF fc >= 3 THEN 5
    ELSE IF fc >= 1 THEN 2
    ELSE 0

f_pts(fc) ==
    IF fc >= 5 THEN 8
    ELSE IF fc >= 3 THEN 5
    ELSE IF fc >= 1 THEN 2
    ELSE 0

supply_points(d) ==
      f_pts(d.foreign_consecutive_buy)
    + (IF d.inst_net_buy_5d > 0 THEN 4 ELSE 0)
    + (IF d.foreign_net_buy_5d > 0 THEN 3 ELSE 0)

\* `if investor_data:` is False for None and for an empty dict
truthy(d) == d.kind = "Data"

\* mutant: the foreign 5-day net buy is credited whatever its sign
supply_score_nosign(i) ==
    IF truthy(i.investor_data)
    THEN Min(f_pts(i.investor_data.foreign_consecutive_buy)
             + (IF i.investor_data.inst_net_buy_5d > 0 THEN 4 ELSE 0) + 3, 15)
    ELSE 0

supply_score(i) ==
    IF truthy(i.investor_data) THEN Min(supply_points(i.investor_data), 15) ELSE 0

(***************************************************************************)
(* score_stock, risk (lines 234-270).  A stop is carried in hundredths of  *)
(* a price unit (stop100 = 100 * stop), so that close * 0.92 is 92 * close.*)
(***************************************************************************)
candidate_stop(i) ==
    IF setup_b(i) /\ notna(i.climax_low) THEN i.climax_low ELSE i.low10

\* line 240: if stop <= 0: stop = close * 0.92
stop100_240(i) ==
    IF candidate_stop(i) <= 0 THEN 92 * i.close ELSE 100 * candidate_stop(i)

\* line 241: risk_pct = (close - stop) / close, as numerator / denominator
raw_risk_num(i) == 100 * i.close - stop100_240(i)
raw_risk_den(i) == 100 * i.close

\* mutant: only the sign of the risk is tested, the 15% ceiling is forgotten
invalid_risk_noceiling(i) == raw_risk_num(i) <= 0

\* line 242: risk_pct <= 0 or risk_pct > 0.15
invalid_risk(i) ==
    raw_risk_num(i) <= 0 \/ 100 * raw_risk_num(i) > 15 * raw_risk_den(i)

risk_num(i) == IF invalid_risk(i) THEN 8 ELSE raw_risk_num(i)
risk_den(i) == IF invalid_risk(i) THEN 100 ELSE raw_risk_den(i)

\* mutant: line 244 left out, the stop keeps its value when the risk is replaced
final_stop100_kept(i) == stop100_240(i)

final_stop100(i) == IF invalid_risk(i) THEN 92 * i.close ELSE stop100_240(i)

(***************************************************************************)
(* risk_pct_pct = risk_pct * 100 compared with an integer tier k, in       *)
(* IEEE-754 double arithmetic:                                             *)
(*  - the substituted 0.08 gives 0.08 * 100 = 8.0 exactly;                 *)
(*  - a quotient of two integers is correctly rounded, so when the exact   *)
(*    risk is k/100 it is the double nearest k/100, and that double times  *)
(*    100 is k for k in 5,6,8,9,10,11 but 7.000000000000001 for k = 7;     *)
(*  - away from a tier the rounding error cannot change the comparison;    *)
(*  - after line 240 the stop is the rounded product close * 0.92 and the  *)
(*    risk is 0.08 up to rounding: it exceeds 8 for some closes            *)
(*    (RoundsAbove8, tabulated for closes up to 110) and not for others.   *)
(***************************************************************************)
RoundsAbove8(close) ==
    close \in {29, 31, 37, 41, 45, 58, 62, 73, 74, 82, 90, 91, 99, 107}

\* mutant: the tier is read off the risk of line 241, before its replacement
risk_pct_pct_le_uncorrected(i, k) ==
    IF candidate_stop(i) <= 0
    THEN (8 < k) \/ (k = 8 /\ ~RoundsAbove8(i.close))
    ELSE \/ 100 * raw_risk_num(i) < k * raw_risk_den(i)
         \/ (100 * raw_risk_num(i) = k * raw_risk_den(i) /\ k # 7)

risk_pct_pct_le(i, k) ==
    IF invalid_risk(i) THEN 8 <= k
    ELSE IF candidate_stop(i) <= 0
         THEN (8 < k) \/ (k = 8 /\ ~RoundsAbove8(i.close))
    ELSE \/ 100 * raw_risk_num(i) < k * raw_risk_den(i)
         \/ (100 * raw_risk_num(i) = k * raw_risk_den(i) /\ k # 7)

\* mutant: the weak-index table goes on to 8 before it excludes
deduction_weak_step(i) ==
    IF i.index_above_ma20
    THEN IF risk_pct_pct_le(i, 5) THEN 0
         ELSE IF risk_pct_pct_le(i, 6) THEN 1
         ELSE IF risk_pct_pct_le(i, 7) THEN 2
         ELSE IF risk_pct_pct_le(i, 8) THEN 3
         ELSE IF risk_pct_pct_le(i, 9) THEN 5
         ELSE IF risk_pct_pct_le(i, 10) THEN 7
         ELSE IF risk_pct_pct_le(i, 11) THEN 9
         ELSE 10
    ELSE IF risk_pct_pct_le(i, 5) THEN 0
         ELSE IF risk_pct_pct_le(i, 6) THEN 2
         ELSE IF risk_pct_pct_le(i, 7) THEN 4
         ELSE IF risk_pct_pct_le(i, 8) THEN 6
         ELSE IF risk_pct_pct_le(i, 9) THEN 8
         ELSE 10

\* lines 246-265
deduction(i) ==
    IF i.index_above_ma20
    THEN IF risk_pct_pct_le(i, 5) THEN 0
         ELSE IF risk_pct_pct_le(i, 6) THEN 1
         ELSE IF risk_pct_pct_le(i, 7) THEN 2
         ELSE IF risk_pct_pct_le(i, 8) THEN 3
         ELSE IF risk_pct_pct_le(i, 9) THEN 5
         ELSE IF risk_pct_pct_le(i, 10) THEN 7
         ELSE IF risk_pct_pct_le(i, 11) THEN 9
         ELSE 10
    ELSE IF risk_pct_pct_le(i, 5) THEN 0
         ELSE IF risk_pct_pct_le(i, 6) THEN 2
         ELSE IF risk_pct_pct_le(i, 7) THEN 4
         ELSE IF risk_pct_pct_le(i, 8) THEN 6
         ELSE 10

risk_score(i) == Max(0, 10 - deduction(i))

\* mutant: the supply term left out of the sum
total_score_nosupply(i) ==
    trend_score(i) + pattern_score(i) + volume_score(i) + risk_score(i)

total_score(i) ==
    trend_score(i) + pattern_score(i) + volume_score(i) + supply_score(i)
    + risk_score(i)

\* mutant: R on door_knock alone, the squeeze test forgotten
setup_r_on_door_knock(i) ==
    IF setup_b(i) THEN "B"
    ELSE IF setup_a(i) THEN "A"
    ELSE IF setup_c(i) THEN "C"
    ELSE IF door_knock(i) THEN "R"
    ELSE "-"

\* lines 274-279
setup(i) ==
    IF setup_b(i) THEN "B"
    ELSE IF setup_a(i) THEN "A"
    ELSE IF setup_c(i) THEN "C"
    ELSE IF door_knock(i) /\ squeeze(i) THEN "R"
    ELSE "-"

\* lines 281-296: the returned record (the fields the properties read)
\* the details dict: the points awarded under each key, 0 for an absent key
\* (pat_setup stands for pat_setup_b / pat_setup_a / pat_setup_c, of which
\* at most one is set; risk_deduction is the deduction, stored negated)
score_details(i) ==
    LET close == i.close
        ma20 == safe_get(i.ma20, close)
        ma50 == safe_get(i.ma50, close)
        ma200 == safe_get(i.ma200, close)
        d == i.investor_data
    IN  [ trend_ma20 |-> IF close > ma20 THEN 5 ELSE 0,
          trend_ma50 |-> IF close > ma50 THEN 5 ELSE 0,
          trend_ma200 |-> IF close > ma200 THEN 5 ELSE 0,
          trend_align_20_50 |-> IF ma20 > ma50 THEN 3 ELSE 0,
          trend_align_50_200 |-> IF ma50 > ma200 THEN 2 ELSE 0,
          trend_adx |-> adx_score(safe_get(i.adx, 0)),
          pat_door_knock |-> IF door_knock(i) THEN 10 ELSE 0,
          pat_squeeze |-> IF squeeze(i) THEN 10 ELSE 0,
          pat_setup |-> setup_pts(i),
          pat_rs_3m |-> IF i.rs_3m >= 80 THEN 5 ELSE 0,
          pat_rs_6m |-> IF i.rs_6m >= 80 THEN 5 ELSE 0,
          vol_explosion |-> explosion_pts(i),
          vol_dryup |-> dryup_pts(i),
          vol_today |-> vol_today_pts(i),
          sup_foreign_consec |->
              IF truthy(d) THEN f_pts(d.foreign_consecutive_buy) ELSE 0,
          sup_inst_net |-> IF truthy(d) /\ d.inst_net_buy_5d > 0 THEN 4 ELSE 0,
          sup_foreign_net |-> IF truthy(d) /\ d.foreign_net_buy_5d > 0 THEN 3 ELSE 0,
          risk_deduction |-> deduction(i) ]

score_stock(i) ==
    [ close |-> i.close,
      stop100 |-> final_stop100(i),
      trend_score |-> trend_score(i),
      pattern_score |-> pattern_score(i),
      volume_score |-> volume_score(i),
      supply_score |-> supply_score(i),
      risk_score |-> risk_score(i),
      total_score |-> total_score(i),
      risk_num |-> risk_num(i),
      risk_den |-> risk_den(i),
      setup |-> setup(i),
      door_knock |-> door_knock(i),
      squeeze |-> squeeze(i),
      \* score_details["vol_today"], 0 when the key is absent
      vol_today |-> vol_today_pts(i),
      score_details |-> score_details(i) ]

NoRecord == [ close |-> 0 ]

(***************************************************************************)
(* Inputs of one evaluation.  The final-bar values come in five groups     *)
(* (trend, pattern, volume, supply, risk); the inputs explored are every   *)
(* value of one group combined with the corner cases of the other four.    *)
(***************************************************************************)
dryup_window == 15

MAs == {NaN, 90, 100, 110}
Adxs == {NaN, 0, 19, 20, 24, 25, 29, 30, 39, 40, 100}
Uppers == {NaN, 120, 105, 100, 99, 98}
BbwPcts == {NaN, 20, 21}
RSs == {0, 79, 80}
Vols == {0, 9, 10, 11, 12, 14, 15, 19, 20, 29, 30}
VolMAs == {NaN, 0, 10}
Lows == {-1, 0, 50, 78} \cup (80 .. MaxPrice)
Closes == {29, 100}

TrendFine == [ma20 : MAs, ma50 : MAs, ma200 : MAs, adx : Adxs]
TrendCoarse ==
    { [ma20 |-> 110, ma50 |-> 110, ma200 |-> 110, adx |-> 0],
      [ma20 |-> 98, ma50 |-> 95, ma200 |-> 90, adx |-> 40] }

PatFine ==
    [upper : Uppers, bbw_pct : BbwPcts, prev_le : BOOLEAN, rs_3m : RSs, rs_6m : RSs]
PatCoarse ==
    { [upper |-> NaN, bbw_pct |-> NaN, prev_le |-> FALSE, rs_3m |-> 0, rs_6m |-> 0],
      [upper |-> 99, bbw_pct |-> 10, prev_le |-> TRUE, rs_3m |-> 80, rs_6m |-> 80] }

VolFine ==
    [vol : Vols, vol_ma20 : VolMAs, explosion_prior : BOOLEAN,
     dryup_count : {NaN} \cup (0 .. dryup_window)]
VolCoarse ==
    { [vol |-> 0, vol_ma20 |-> 10, explosion_prior |-> FALSE, dryup_count |-> 0],
      [vol |-> 30, vol_ma20 |-> 10, explosion_prior |-> TRUE, dryup_count |-> 6] }

\* investor_data: None, {} or the record get_investor_data returns
NoData(kind) ==
    [kind |-> kind, foreign_consecutive_buy |-> 0, inst_net_buy_5d |-> 0,
     foreign_net_buy_5d |-> 0]
InvestorRecords ==
    [kind : {"Data"}, foreign_consecutive_buy : 0 .. MaxConsec,
     inst_net_buy_5d : {-1, 0, 1}, foreign_net_buy_5d : {-1, 0, 1}]
SupFine ==
    { [investor_data |-> d] : d \in {NoData("None"), NoData("Empty")} \cup InvestorRecords }
NoSupply == [investor_data |-> NoData("None")]
SupCoarse ==
    { NoSupply,
      [investor_data |-> [kind |-> "Data", foreign_consecutive_buy |-> 5,
                          inst_net_buy_5d |-> 1, foreign_net_buy_5d |-> 1]] }

\* (climax_high, climax_low) forward-filled to the final bar
Climaxes ==
    { <<NaN, NaN>>, <<99, NaN>>, <<99, -1>>, <<99, 0>>, <<99, 80>>, <<99, 93>>,
      <<99, 99>>, <<120, 100>> }
RiskFine ==
    { [close |-> c, low10 |-> l, index_above_ma20 |-> x,
       climax_high |-> k[1], climax_low |-> k[2]] :
         c \in Closes, l \in Lows, x \in BOOLEAN, k \in Climaxes }
RiskCoarse ==
    { [close |-> 100, low10 |-> 96, index_above_ma20 |-> TRUE,
       climax_high |-> NaN, climax_low |-> NaN],
      [close |-> 100, low10 |-> 70, index_above_ma20 |-> FALSE,
       climax_high |-> 99, climax_low |-> 97] }

\* the two trend scenarios of the specification: a flat series, and
\* close 10,000 above MA20 9,800 > MA50 9,500 > MA200 9,000 with ADX 32
ScenarioTrend ==
    { [ma20 |-> 10000, ma50 |-> 10000, ma200 |-> 10000, adx |-> 0],
      [ma20 |-> 9800, ma50 |-> 9500, ma200 |-> 9000, adx |-> 32] }
ScenarioRisk ==
    { [close |-> 10000, low10 |-> 9600, index_above_ma20 |-> TRUE,
       climax_high |-> NaN, climax_low |-> NaN] }

\* inp is one record of each group, merged
Drawn(T, P, V, S, R) ==
    \E t \in T, p \in P, v \in V, s \in S, r \in R : inp = t @@ p @@ v @@ s @@ r

InputDrawn ==
    \/ Drawn(TrendFine, PatCoarse, VolCoarse, SupCoarse, RiskCoarse)
    \/ Drawn(TrendCoarse, PatFine, VolCoarse, SupCoarse, RiskCoarse)
    \/ Drawn(TrendCoarse, PatCoarse, VolFine, SupCoarse, RiskCoarse)
    \/ Drawn(TrendCoarse, PatCoarse, VolCoarse, SupFine, RiskCoarse)
    \/ Drawn(TrendCoarse, PatCoarse, VolCoarse, SupCoarse, RiskFine)
    \/ Drawn(ScenarioTrend, PatCoarse, VolCoarse, SupCoarse, ScenarioRisk)

PatPair ==
    [upper : Uppers, bbw_pct : BbwPcts, prev_le : BOOLEAN, rs_3m : {0, 80}, rs_6m : {0}]

PairInputs ==
    { t @@ p @@ v @@ s @@ r :
        t \in TrendCoarse, p \in PatPair, v \in VolCoarse, s \in {NoSupply},
        r \in RiskCoarse }

NoPrev == [setup |-> "none"]

\* the booleans the tag is decided on (lines 275-278)
triggers(i) == <<setup_a(i), setup_b(i), setup_c(i), door_knock(i) /\ squeeze(i)>>

(***************************************************************************)
(* Idle values of the variables a specification does not use.              *)
(***************************************************************************)
NoInv == [kind |-> "none"]

ScoreIdle ==
    pc = "idle" /\ inp = NoRecord /\ res = NoRecord /\ prev = NoPrev /\ sig = <<>>
Sources == {"naver", "daum"}
NoCalls == [s \in Sources |-> 0]

InvestorIdle ==
    /\ ipc = "idle" /\ attempt = 0 /\ calls = NoCalls /\ failed = {}
    /\ sleeps = NoCalls /\ inv = NoInv /\ source = "none" /\ todo = 0
    /\ log = <<>>
MergeIdle == files = <<>> /\ merged = <<>> /\ mpc = "idle"
NoFile == [written |-> FALSE]

ScanIdle ==
    /\ chunk_stocks = 0 /\ fetched = <<>> /\ tech_results = <<>>
    /\ final_results = <<>> /\ out = NoFile /\ spc = "idle"

(***************************************************************************)
(* Spec: one evaluation of score_stock.                                    *)
(***************************************************************************)
Init ==
    /\ pc = "input" /\ InputDrawn /\ res = NoRecord /\ prev = NoPrev
    /\ sig = <<>>
    /\ InvestorIdle /\ MergeIdle /\ ScanIdle

ScoreStock ==
    /\ pc = "input"
    /\ res' = score_stock(inp)
    /\ pc' = "done"
    /\ UNCHANGED <<inp, prev, sig, investorVars, mergeVars, scanVars>>

Next == ScoreStock

Spec == Init /\ [][Next]_vars

(***************************************************************************)
(* SpecPair: the scan loop of update_daily.main (lines 237-258) scoring    *)
(* one symbol after another; prev remembers the previous evaluation.       *)
(***************************************************************************)
InitPair ==
    /\ pc = "input" /\ inp \in PairInputs /\ res = NoRecord /\ prev = NoPrev
    /\ sig = <<>>
    /\ InvestorIdle /\ MergeIdle /\ ScanIdle

NextSymbol ==
    /\ pc = "done"
    /\ prev' = [setup |-> res.setup, triggers |-> triggers(inp),
                door_knock |-> res.door_knock, squeeze |-> res.squeeze,
                rs_3m |-> inp.rs_3m, adx |-> inp.adx]
    /\ inp' \in PairInputs
    /\ res' = NoRecord
    /\ pc' = "input"
    /\ UNCHANGED <<sig, investorVars, mergeVars, scanVars>>

NextPair == ScoreStock \/ NextSymbol

SpecPair == InitPair /\ [][NextPair]_vars

(***************************************************************************)
(* Properties of score_stock.                                              *)
(***************************************************************************)

\* C1: in every returned record total_score is the sum of the five
\* sub-scores and lies in [0, 100].
C1_TotalIsSumInRange ==
    pc = "done" =>
        /\ res.total_score = res.trend_score + res.pattern_score
                + res.volume_score + res.supply_score + res.risk_score
        /\ res.total_score >= 0
        /\ res.total_score <= 100

\* C1 witness: a record with the full 100 points, reached while the pattern
\* points before the cap are 35.
C1_Witness ==
    pc = "done" /\ res.total_score = 100 /\ pattern_raw(inp) = 35

\* C2: in every returned record each sub-score lies within its own cap.
C2_SubScoresWithinCaps ==
    pc = "done" =>
        /\ res.trend_score \in 0 .. 25
        /\ res.pattern_score \in 0 .. 30
        /\ res.volume_score \in 0 .. 20
        /\ res.supply_score \in 0 .. 15
        /\ res.risk_score \in 0 .. 10

\* C2 witness: the pattern cap binds (more than 30 points awarded) in a
\* record whose risk score is at its floor.
C2_Witness ==
    pc = "done" /\ pattern_raw(inp) > 30 /\ res.pattern_score = 30
    /\ res.risk_score = 0

\* C3: with close > 0 the risk fraction of the returned record lies in
\* (0, 0.15], whatever the candidate stop.
C3_RiskBounded ==
    pc = "done" =>
        /\ res.risk_den > 0
        /\ res.risk_num > 0
        /\ 100 * res.risk_num <= 15 * res.risk_den

\* C3 witness: a candidate stop above the close, returned with risk 8%.
C3_Witness ==
    pc = "done" /\ candidate_stop(inp) > inp.close
    /\ 100 * res.risk_num = 8 * res.risk_den

\* C4: in every returned record stop < close whenever risk_pct > 0.
C4_StopBelowClose ==
    (pc = "done" /\ res.risk_num > 0) => res.stop100 < 100 * res.close

\* C4 witness: the 10-bar low equals the close (risk 0 before correction)
\* and the returned stop is below the close.
C4_Witness ==
    pc = "done" /\ ~setup_b(inp) /\ inp.low10 = inp.close
    /\ res.risk_num > 0 /\ res.stop100 < 100 * res.close

\* C5: when the risk of line 241 is <= 0 or > 0.15, the record carries
\* exactly risk 0.08 and stop = close x 0.92, and the risk score of the 8%
\* tier (deduction 3, or 6 under a weak index), not the one of the raw risk.
C5_InvalidRiskDefault ==
    (pc = "done"
        /\ (\/ 100 * inp.close - stop100_240(inp) <= 0
            \/ 100 * (100 * inp.close - stop100_240(inp)) > 15 * 100 * inp.close))
    =>  /\ res.risk_num = 8 /\ res.risk_den = 100
        /\ res.stop100 = 92 * res.close
        /\ res.risk_score = (IF inp.index_above_ma20 THEN 7 ELSE 4)

\* C5 witness: close 100 and stop 78, a raw risk of 0.22, scored 10 - 3.
C5_Witness ==
    pc = "done" /\ inp.close = 100 /\ candidate_stop(inp) = 78
    /\ res.risk_score = 7 /\ res.stop100 = 9200

\* C6 (as claimed): the tag follows the priority R > B > A > C > "-",
\* first match winning, R being the condition the code tags R on.
C6_PriorityRFirst ==
    pc = "done" =>
        LET r == door_knock(inp) /\ squeeze(inp)
            b == setup_b(inp)
            a == setup_a(inp)
            c == setup_c(inp)
        IN  res.setup = (IF r THEN "R"
                         ELSE IF b THEN "B"
                         ELSE IF a THEN "A"
                         ELSE IF c THEN "C"
                         ELSE "-")

C8_SupplyScore ==
    pc = "done" =>
        LET d == inp.investor_data
            fc == d.foreign_consecutive_buy
            tier == IF fc >= 5 THEN 8 ELSE IF fc >= 3 THEN 5
                    ELSE IF fc >= 1 THEN 2 ELSE 0
            sum == tier + (IF d.inst_net_buy_5d > 0 THEN 4 ELSE 0)
                        + (IF d.foreign_net_buy_5d > 0 THEN 3 ELSE 0)
            zero == fc = 0 /\ d.inst_net_buy_5d = 0 /\ d.foreign_net_buy_5d = 0
        IN  /\ d.kind = "Data" => res.supply_score = Min(15, sum)
            /\ (d.kind \in {"None", "Empty"} \/ zero) => res.supply_score = 0

\* C8 witness: 3 consecutive days, institutions net buyers, foreigners net
\* sellers over 5 days: 5 + 4.
C8_Witness ==
    /\ pc = "done" /\ inp.investor_data.kind = "Data"
    /\ inp.investor_data.foreign_consecutive_buy = 3
    /\ inp.investor_data.inst_net_buy_5d > 0
    /\ inp.investor_data.foreign_net_buy_5d < 0
    /\ res.supply_score = 9

\* C14: with the three moving averages defined, trend_score is
\* min(25, 5 if close > MA20 + 5 if close > MA50 + 5 if close > MA200
\* + 3 if MA20 > MA50 + 2 if MA50 > MA200 + ADX tier), the tier being
\* 2/3/4/5 for ADX >= 20/25/30/40 and 0 below 20 (or indeterminate); the flat
\* series with ADX 0 scores 0, and 10000 / 9800 / 9500 / 9000 with ADX 32
\* scores 24.
C14_TrendScore ==
    pc = "done" =>
        LET c == inp.close
            tier == IF inp.adx = NaN THEN 0
                    ELSE IF inp.adx >= 40 THEN 5
                    ELSE IF inp.adx >= 30 THEN 4
                    ELSE IF inp.adx >= 25 THEN 3
                    ELSE IF inp.adx >= 20 THEN 2
                    ELSE 0
            sum == (IF c > inp.ma20 THEN 5 ELSE 0) + (IF c > inp.ma50 THEN 5 ELSE 0)
                   + (IF c > inp.ma200 THEN 5 ELSE 0)
                   + (IF inp.ma20 > inp.ma50 THEN 3 ELSE 0)
                   + (IF inp.ma50 > inp.ma200 THEN 2 ELSE 0) + tier
        IN  /\ (inp.ma20 # NaN /\ inp.ma50 # NaN /\ inp.ma200 # NaN)
                => res.trend_score = (IF sum > 25 THEN 25 ELSE sum)
            /\ (c = inp.ma20 /\ c = inp.ma50 /\ c = inp.ma200 /\ inp.adx = 0)
                => res.trend_score = 0
            /\ (c = 10000 /\ inp.ma20 = 9800 /\ inp.ma50 = 9500
                    /\ inp.ma200 = 9000 /\ inp.adx = 32)
                => res.trend_score = 24

\* C14 witness: the second scenario, scored 24.
C14_Witness ==
    /\ pc = "done" /\ inp.close = 10000 /\ inp.ma20 = 9800 /\ inp.ma50 = 9500
    /\ inp.ma200 = 9000 /\ inp.adx = 32 /\ res.trend_score = 24

\* C15 (as claimed): pattern_score = min(30, 10 if Door Knock + 10 if Squeeze
\* + 10 if Memory + 5 if rs_3m >= 80 + 5 if rs_6m >= 80) and nothing else
\* earns points; the Memory flag, which the scorer never computes, is given
\* whichever value suits the claim.
C15_CanonicalPattern ==
    pc = "done" =>
        \E memory \in BOOLEAN :
            LET sum == (IF res.door_knock THEN 10 ELSE 0)
                       + (IF res.squeeze THEN 10 ELSE 0)
                       + (IF memory THEN 10 ELSE 0)
                       + (IF inp.rs_3m >= 80 THEN 5 ELSE 0)
                       + (IF inp.rs_6m >= 80 THEN 5 ELSE 0)
            IN  res.pattern_score = (IF sum > 30 THEN 30 ELSE sum)

\* C17 (as claimed): with a positive 20-bar average, today's volume term is
\* below 8 for a ratio in [1.2, 2), 8 for a ratio in [2, 3] and below 8 for a
\* ratio above 3.
C17_TodayBands ==
    (pc = "done" /\ inp.vol_ma20 # NaN /\ inp.vol_ma20 > 0) =>
        LET v == inp.vol
            m == inp.vol_ma20
        IN  /\ (10 * v >= 12 * m /\ v < 2 * m) => res.vol_today < 8
            /\ (v >= 2 * m /\ v <= 3 * m) => res.vol_today = 8
            /\ (v > 3 * m) => res.vol_today < 8

(***************************************************************************)
(* update_daily.get_investor_data: three attempts against Naver, then      *)
(* three against Daum, then the zero-filled default.  One action is one    *)
(* iteration of a retry loop, its except clauses included.                 *)
(***************************************************************************)
max_retries == 3
MaxCandidates == 2

\* what one iteration of the try body can end in
Outcomes == {"record", "nodata", "request_error", "parse_error"}

\* Naver reads at most 5 rows (count >= 5: break); Daum reads `days` rows
NaverRecords ==
    { d \in InvestorRecords : d.foreign_consecutive_buy <= 5 }
DaumRecords == InvestorRecords

DefaultRecord ==
    [kind |-> "Data", foreign_consecutive_buy |-> 0, inst_net_buy_5d |-> 0,
     foreign_net_buy_5d |-> 0]

\* mutant: no `except Exception` clause, a parse error leaves the function
after_attempt_uncaught(o) ==
    IF o = "record" THEN "return"
    ELSE IF o = "request_error" THEN "continue"
    ELSE IF o = "parse_error" THEN "raise"
    ELSE "continue"

\* the control transfer after the try body: return (lines 128, 164), the
\* RequestException clause (continue), the Exception clause (break), or the
\* end of the loop body when no record was produced
after_attempt(o) ==
    IF o = "record" THEN "return"
    ELSE IF o = "request_error" THEN "continue"
    ELSE IF o = "parse_error" THEN "break"
    ELSE "continue"

\* mutant: one iteration too many
loop_ends_late(a) == a + 1 > max_retries

\* for attempt in range(max_retries): iteration a was the last one
loop_ends(a) == a + 1 >= max_retries

\* mutant: time.sleep(1) after every request error, the last one included
sleeps_after_always(o, a) == o = "request_error"

\* if attempt < max_retries - 1: time.sleep(1)
sleeps_after(o, a) == o = "request_error" /\ a < max_retries - 1

InitInvestor ==
    /\ ipc = "idle" /\ attempt = 0 /\ calls = NoCalls /\ failed = {}
    /\ sleeps = NoCalls /\ inv = NoInv /\ source = "none"
    /\ todo = MaxCandidates /\ log = <<>>
    /\ ScoreIdle /\ MergeIdle /\ ScanIdle

\* main, line 273: inv = get_investor_data(code) for the next candidate
CallGetInvestorData ==
    /\ ipc \in {"idle", "done"}
    /\ todo > 0
    /\ todo' = todo - 1
    /\ ipc' = "naver" /\ attempt' = 0 /\ calls' = NoCalls /\ failed' = {}
    /\ sleeps' = NoCalls /\ inv' = NoInv /\ source' = "none" /\ log' = <<>>
    /\ UNCHANGED <<scoreVars, mergeVars, scanVars>>

\* lines 74-135
NaverAttempt ==
    /\ ipc = "naver"
    /\ \E o \in Outcomes, d \in NaverRecords :
        LET after == after_attempt(o) IN
        /\ calls' = [calls EXCEPT !["naver"] = @ + 1]
        /\ log' = Append(log, [source |-> "naver", outcome |-> o])
        /\ sleeps' = IF sleeps_after(o, attempt)
                      THEN [sleeps EXCEPT !["naver"] = @ + 1] ELSE sleeps
        /\ IF after = "return"
           THEN /\ inv' = d /\ source' = "naver" /\ ipc' = "done"
                /\ UNCHANGED <<attempt, failed>>
           ELSE IF after = "raise"
           THEN /\ ipc' = "raised"
                /\ UNCHANGED <<attempt, failed, inv, source>>
           ELSE IF after = "break" \/ loop_ends(attempt)
           THEN /\ ipc' = "daum" /\ attempt' = 0
                /\ failed' = failed \cup {"naver"}
                /\ UNCHANGED <<inv, source>>
           ELSE /\ attempt' = attempt + 1
                /\ UNCHANGED <<ipc, failed, inv, source>>
    /\ UNCHANGED <<todo, scoreVars, mergeVars, scanVars>>

\* lines 137-174
DaumAttempt ==
    /\ ipc = "daum"
    /\ \E o \in Outcomes, d \in DaumRecords :
        LET after == after_attempt(o) IN
        /\ calls' = [calls EXCEPT !["daum"] = @ + 1]
        /\ log' = Append(log, [source |-> "daum", outcome |-> o])
        /\ sleeps' = IF sleeps_after(o, attempt)
                      THEN [sleeps EXCEPT !["daum"] = @ + 1] ELSE sleeps
        /\ IF after = "return"
           THEN /\ inv' = d /\ source' = "daum" /\ ipc' = "done"
                /\ UNCHANGED <<attempt, failed>>
           ELSE IF after = "raise"
           THEN /\ ipc' = "raised"
                /\ UNCHANGED <<attempt, failed, inv, source>>
           ELSE IF after = "break" \/ loop_ends(attempt)
           THEN \* lines 173-174: the zero-filled default
                /\ inv' = DefaultRecord /\ source' = "default" /\ ipc' = "done"
                /\ failed' = failed \cup {"daum"}
                /\ UNCHANGED attempt
           ELSE /\ attempt' = attempt + 1
                /\ UNCHANGED <<ipc, failed, inv, source>>
    /\ UNCHANGED <<todo, scoreVars, mergeVars, scanVars>>

NextInvestor == CallGetInvestorData \/ NaverAttempt \/ DaumAttempt

SpecInvestor == InitInvestor /\ [][NextInvestor]_vars

\* every request carries a timeout (15 s, 5 s, 10 s) and every sleep is
\* finite, so an iteration that has started completes
FairSpecInvestor == SpecInvestor /\ WF_vars(NextInvestor)

\* C9: get_investor_data terminates with a record of the three flow fields
\* and never raises; at most 3 attempts go to the primary source, the
\* secondary is contacted only after the primary has failed, at most 3
\* attempts go to the secondary, and the default is returned only after
\* both have failed.
C9_BoundedRetryChain ==
    /\ [](/\ ipc # "raised"
          /\ calls["naver"] <= 3
          /\ calls["daum"] <= 3
          /\ (calls["daum"] > 0 => ("naver" \in failed /\ calls["naver"] >= 1))
          /\ (source = "default" => (failed = Sources /\ calls["daum"] >= 1))
          /\ (ipc = "done" =>
                DOMAIN inv = {"kind", "foreign_consecutive_buy",
                              "inst_net_buy_5d", "foreign_net_buy_5d"}))
    /\ [](ipc \in {"naver", "daum"} => <>(ipc = "done"))

\* C9 witness: the default returned after 3 failed attempts on each source.
C9_Witness ==
    /\ ipc = "done" /\ source = "default" /\ inv = DefaultRecord
    /\ calls["naver"] = 3 /\ calls["daum"] = 3

(***************************************************************************)
(* The merge of the partial result files: merge_chunks.main, and the       *)
(* fallback of app.load_data followed by the ranking sort of app.py.       *)
(* A row is [code, total_score, chunk]; chunk is the column update_daily   *)
(* writes into every row (line 291) and tells the rows of two files apart. *)
(* A partial file holds one row per symbol of its shard, sorted descending *)
(* by total_score (update_daily.main, line 301); an empty file is the      *)
(* empty CSV of line 263, which pd.read_csv rejects.                       *)
(***************************************************************************)
MaxFiles == 2
MaxRows == 2
MaxCode == 2
Scores == {50, 60}

IsSortedDesc(rows) ==
    \A k \in 1 .. Len(rows) - 1 : rows[k].total_score >= rows[k + 1].total_score

DistinctCodes(rows) ==
    \A j, k \in 1 .. Len(rows) : j # k => rows[j].code # rows[k].code

\* the files chunk c can have written
PartialFiles(c) ==
    { f \in UNION { [1 .. n -> [code : 1 .. MaxCode, total_score : Scores, chunk : {c}]] :
                      n \in 0 .. MaxRows } :
        DistinctCodes(f) /\ IsSortedDesc(f) }

RECURSIVE concat(_)
\* pd.concat(dfs, ignore_index=True)
concat(dfs) == IF dfs = <<>> THEN <<>> ELSE Head(dfs) \o concat(Tail(dfs))

RECURSIVE keep_first(_, _)
keep_first(rows, seen) ==
    IF rows = <<>> THEN <<>>
    ELSE IF Head(rows).code \in seen THEN keep_first(Tail(rows), seen)
    ELSE <<Head(rows)>> \o keep_first(Tail(rows), seen \cup {Head(rows).code})

RECURSIVE keep_last(_, _)
keep_last(rows, seen) ==
    IF rows = <<>> THEN <<>>
    ELSE LET last == rows[Len(rows)]
             init == SubSeq(rows, 1, Len(rows) - 1)
         IN  IF last.code \in seen THEN keep_last(init, seen)
             ELSE keep_last(init, seen \cup {last.code}) \o <<last>>

\* mutant: keep="last"
drop_duplicates_last(rows) == keep_last(rows, {})

\* out.drop_duplicates(subset=["code"], keep="first")
drop_duplicates(rows) == keep_first(rows, {})

Range(rows) == { rows[k] : k \in 1 .. Len(rows) }

\* sort_values("total_score", ascending=False): the default quicksort is not
\* stable, so rows of equal score may come out in any order
sort_values(rows) ==
    { p \in [1 .. Len(rows) -> Range(rows)] :
        Range(p) = Range(rows) /\ IsSortedDesc(p) }

\* the frames that pd.read_csv returned and that are not empty
readable(fs) == SelectSeq(fs, LAMBDA f : f # <<>>)

InitMerge ==
    /\ \E n \in 1 .. MaxFiles :
          files \in { fs \in [1 .. n -> UNION { PartialFiles(c) : c \in 1 .. n }] :
                         \A c \in 1 .. n : fs[c] \in PartialFiles(c) }
    /\ merged = <<>> /\ mpc = "ready"
    /\ ScoreIdle /\ InvestorIdle /\ ScanIdle

\* merge_chunks.main
MergeChunks ==
    /\ mpc = "ready"
    /\ LET dfs == readable(files) IN
        IF dfs = <<>>
        THEN mpc' = "skipped" /\ merged' = merged
        ELSE /\ merged' \in sort_values(drop_duplicates(concat(dfs)))
             /\ mpc' = "merged"
    /\ UNCHANGED <<files, scoreVars, investorVars, scanVars>>

\* app.load_data without a merged file (lines 36-53), then the ranking sort
\* of the dashboard (lines 203-204)
LoadData ==
    /\ mpc = "ready"
    /\ LET df_list == readable(files) IN
        IF df_list = <<>>
        THEN mpc' = "none" /\ merged' = merged
        ELSE /\ merged' \in sort_values(drop_duplicates(concat(df_list)))
             /\ mpc' = "loaded"
    /\ UNCHANGED <<files, scoreVars, investorVars, scanVars>>

NextMerge == MergeChunks \/ LoadData

SpecMerge == InitMerge /\ [][NextMerge]_vars

\* C10: the merge of N partial result sets has exactly one row per distinct
\* code, that row being the first with the code in concatenation order of
\* the files, and its rows are sorted descending by total_score.
C10_MergeDedupSorted ==
    mpc \in {"merged", "loaded"} =>
        LET all == concat(files) IN
        /\ { merged[k].code : k \in 1 .. Len(merged) }
             = { all[k].code : k \in 1 .. Len(all) }
        /\ \A j, k \in 1 .. Len(merged) : j # k => merged[j].code # merged[k].code
        /\ \A k \in 1 .. Len(merged) :
             \E j \in 1 .. Len(all) :
                /\ all[j] = merged[k]
                /\ \A h \in 1 .. j - 1 : all[h].code # merged[k].code
        /\ \A k \in 1 .. Len(merged) - 1 :
             merged[k].total_score >= merged[k + 1].total_score

\* C10 witness: two files share a code with different scores; the merged
\* output keeps two rows, the shared code with the score of the first file.
C10_Witness ==
    /\ mpc = "merged" /\ Len(files) = 2 /\ Len(merged) = 2
    /\ \E j \in 1 .. Len(files[1]), k \in 1 .. Len(files[2]) :
          /\ files[1][j].code = files[2][k].code
          /\ files[1][j].total_score < files[2][k].total_score
          /\ \E m \in 1 .. Len(merged) : merged[m] = files[1][j]

(***************************************************************************)
(* update_daily.main for one shard.  STEP1 (lines 237-258) fetches the     *)
(* price history of one symbol after another and scores it inside a        *)
(* try / bare except; STEP2 (lines 271-297) adds the investor flow and the *)
(* news to the candidates; the output file is written at line 263 (no      *)
(* symbol passed) or line 303.  A price history is described by the three  *)
(* facts main reads off it: its length, the sum of its last 5 volumes and  *)
(* its last close.                                                         *)
(***************************************************************************)
MaxSymbols == 2

\* len(df) < 200 (line 247), len(df) < 60 (scanner_core, line 47)
min_len == 200
signals_min_len == 60
\* cfg["universe"]["min_close"]
min_close == 1000
\* cfg.get("investor", {}).get("top_candidates", 100)
top_candidates == 100
\* cfg.get("scoring", {}).get("supply_weight", 15)
supply_w == 15

\* scanner_core, lines 47-48: df is None or len(df) < 60
calculate_signals_is_none(df) == df.fetch = "None" \/ df.len < signals_min_len

\* scanner_core, lines 110-111: if sig is None: return None
score_stock_is_none(sig_is_none) == sig_is_none

\* the final-bar values the scorer sees for a symbol closing at c
scan_input(v, c) ==
    [ma20 |-> 110, ma50 |-> 110, ma200 |-> 110, adx |-> 0]
    @@ [upper |-> NaN, bbw_pct |-> NaN, prev_le |-> FALSE, rs_3m |-> 0, rs_6m |-> 0]
    @@ v @@ NoSupply
    @@ [close |-> c, low10 |-> c - 40, index_above_ma20 |-> TRUE,
        climax_high |-> NaN, climax_low |-> NaN]

VolQuiet == [vol |-> 0, vol_ma20 |-> 10, explosion_prior |-> FALSE, dryup_count |-> 0]

\* the facts main reads off a fetched price history
DfFacts ==
    [name : {"n"}, fetch : {"df"}, len : {199, 200}, vol5 : {0, 7},
     close : {min_close - 1, min_close}, compute : {"ok", "raise"}]

\* line 247-249 and no exception: the history is scored and gives a row
fit(f) ==
    /\ f.len >= min_len /\ f.vol5 # 0 /\ f.close >= min_close
    /\ f.compute = "ok"

\* one symbol of the shard: its row of the stock list, what fdr.DataReader
\* does for it and whether calculate_signals / score_stock raise on its data
Fetches ==
    [name : {"n"}, fetch : {"raise", "None"}, len : {0}, vol5 : {0},
     close : {0}, compute : {"ok"}, i : {NoRecord}]
    \cup { [name |-> "", fetch |-> "df", len |-> 200, vol5 |-> 7,
            close |-> min_close, compute |-> "ok",
            i |-> scan_input(VolQuiet, min_close)] }
    \cup UNION { { f @@ [i |-> scan_input(v, f.close)] :
                     v \in { w \in VolCoarse : fit(f) \/ w = VolQuiet } } :
                   f \in DfFacts }

\* mutant: the close is not compared with min_close (line 249 left out)
step1_outcome_nofloor(f) ==
    IF f.name = "" THEN "skip"
    ELSE IF f.fetch = "raise" THEN "except"
    ELSE IF f.fetch = "None" \/ f.len < min_len THEN "skip"
    ELSE IF f.vol5 = 0 THEN "skip"
    ELSE IF f.compute = "raise" THEN "except"
    ELSE IF score_stock_is_none(calculate_signals_is_none(f)) THEN "skip"
    ELSE "append"

\* mutant: no try / except around the body of the loop
step1_outcome_notry(f) ==
    IF f.name = "" THEN "skip"
    ELSE IF f.fetch = "raise" THEN "raise"
    ELSE IF f.fetch = "None" \/ f.len < min_len THEN "skip"
    ELSE IF f.vol5 = 0 THEN "skip"
    ELSE IF f.close < min_close THEN "skip"
    ELSE IF f.compute = "raise" THEN "raise"
    ELSE IF score_stock_is_none(calculate_signals_is_none(f)) THEN "skip"
    ELSE "append"

\* lines 243-258: how one iteration of the STEP1 loop ends
step1_outcome(f) ==
    IF f.name = "" THEN "skip"
    ELSE IF f.fetch = "raise" THEN "except"
    ELSE IF f.fetch = "None" \/ f.len < min_len THEN "skip"
    ELSE IF f.vol5 = 0 THEN "skip"
    ELSE IF f.close < min_close THEN "skip"
    ELSE IF f.compute = "raise" THEN "except"
    ELSE IF score_stock_is_none(calculate_signals_is_none(f)) THEN "skip"
    ELSE "append"

\* line 256: the row appended to tech_results
tech_row(code, f) == [code |-> code] @@ score_stock(f.i)

\* df.head(n)
head(rows, n) == SubSeq(rows, 1, Min(n, Len(rows)))

\* what get_investor_data returns for a candidate, and analyze_stock_news
ScanInvs ==
    { DefaultRecord,
      [kind |-> "Data", foreign_consecutive_buy |-> 5, inst_net_buy_5d |-> 1,
       foreign_net_buy_5d |-> -1] }
ScanNews == { [keywords |-> "", news_count |-> 0], [keywords |-> "k", news_count |-> 3] }

\* lines 274-295: the row appended to final_results
\* lines 274-292 for a configured scoring.supply_weight w
final_row_w(row, d, news, w) ==
    LET supply == Min(supply_points(d), w)
        new_total == row.trend_score + row.pattern_score + row.volume_score
                     + supply + row.risk_score
    IN  [row EXCEPT !.supply_score = supply, !.total_score = new_total]
        @@ [foreign_consec_buy |-> d.foreign_consecutive_buy] @@ news

final_row(row, d, news) == final_row_w(row, d, news, supply_w)

\* the descriptions of df a direct call of the two functions is tried on
DirectDfs ==
    { [fetch |-> "None", len |-> 0] }
    \cup { [fetch |-> "df", len |-> n] : n \in {0, 59, 60, 199, 200} }

InitScan ==
    /\ chunk_stocks \in 1 .. MaxSymbols
    /\ fetched = <<>> /\ tech_results = <<>> /\ final_results = <<>>
    /\ out = NoFile /\ spc = "step1"
    /\ pc = "input" /\ inp \in DirectDfs /\ res = NoRecord /\ prev = NoPrev
    /\ sig = <<>>
    /\ InvestorIdle /\ MergeIdle

\* sig = calculate_signals(df, cfg); scored = score_stock(df, sig, cfg)
CallScoreStock ==
    /\ pc = "input" /\ spc # "idle"
    /\ res' = [sig_is_none |-> calculate_signals_is_none(inp),
               scored_is_none |->
                   score_stock_is_none(calculate_signals_is_none(inp))]
    /\ pc' = "done"
    /\ UNCHANGED <<inp, prev, sig, investorVars, mergeVars, scanVars>>

\* lines 237-258, one iteration
ScanSymbol ==
    /\ spc = "step1"
    /\ Len(fetched) < chunk_stocks
    /\ \E f \in Fetches :
        LET code == Len(fetched) + 1
            o == step1_outcome(f)
        IN  /\ fetched' = Append(fetched, f)
            /\ tech_results' = IF o = "append"
                               THEN Append(tech_results, tech_row(code, f))
                               ELSE tech_results
            /\ spc' = IF o = "raise" THEN "raised" ELSE spc
    /\ UNCHANGED <<chunk_stocks, final_results, out, scoreVars, investorVars,
                   mergeVars>>

\* lines 259-269: after the loop
AfterStep1 ==
    /\ spc = "step1"
    /\ Len(fetched) = chunk_stocks
    /\ IF tech_results = <<>>
       THEN /\ out' = [written |-> TRUE, rows |-> <<>>]
            /\ spc' = "written"
            /\ UNCHANGED tech_results
       ELSE /\ \E tech_df \in sort_values(tech_results) :
                 tech_results' = head(tech_df, top_candidates)
            /\ spc' = "step2"
            /\ UNCHANGED out
    /\ UNCHANGED <<chunk_stocks, fetched, final_results, scoreVars, investorVars,
                   mergeVars>>

\* lines 271-297, one iteration
SupplyLookup ==
    /\ spc = "step2"
    /\ Len(final_results) < Len(tech_results)
    /\ \E d \in ScanInvs, news \in ScanNews :
          final_results' =
              Append(final_results,
                     final_row(tech_results[Len(final_results) + 1], d, news))
    /\ UNCHANGED <<chunk_stocks, fetched, tech_results, out, spc, scoreVars,
                   investorVars, mergeVars>>

\* lines 298-304
WriteOutput ==
    /\ spc = "step2"
    /\ Len(final_results) = Len(tech_results)
    /\ \E rows \in sort_values(final_results) :
          out' = [written |-> TRUE, rows |-> rows]
    /\ spc' = "written"
    /\ UNCHANGED <<chunk_stocks, fetched, tech_results, final_results, scoreVars,
                   investorVars, mergeVars>>

NextScan ==
    CallScoreStock \/ ScanSymbol \/ AfterStep1 \/ SupplyLookup \/ WriteOutput

SpecScan == InitScan /\ [][NextScan]_vars

\* every request has a timeout and every loop of main is over a finite list
FairSpecScan ==
    /\ SpecScan
    /\ WF_vars(ScanSymbol \/ AfterStep1 \/ SupplyLookup \/ WriteOutput)

codes(rows) == { rows[k].code : k \in 1 .. Len(rows) }

\* C11: a symbol whose history has fewer than 200 bars, whose last 5 volumes
\* sum to zero or whose last close is below min_close has no row in
\* tech_results, final_results or the output file; calculate_signals returns
\* None below 60 bars and score_stock returns None when the signal set is None.
C11_NoRecordForUnfit ==
    /\ \A k \in 1 .. Len(fetched) :
          (fetched[k].fetch = "df"
             /\ (\/ fetched[k].len < 200
                 \/ fetched[k].vol5 = 0
                 \/ fetched[k].close < min_close))
          => /\ k \notin codes(tech_results)
             /\ k \notin codes(final_results)
             /\ (out.written => k \notin codes(out.rows))
    /\ pc = "done" =>
          /\ (inp.fetch = "df" /\ inp.len < 60) => res.sig_is_none
          /\ res.sig_is_none => res.scored_is_none

\* C11 witness: the file is written with one row while a symbol with 200
\* bars, traded, but closing below min_close was visited, and a direct call
\* on 59 bars returned None.
C11_Witness ==
    /\ spc = "written" /\ Len(out.rows) = 1
    /\ \E k \in 1 .. Len(fetched) :
          /\ fetched[k].len = 200 /\ fetched[k].vol5 > 0
          /\ fetched[k].close < min_close /\ fetched[k].compute = "ok"
    /\ pc = "done" /\ inp.fetch = "df" /\ inp.len = 59 /\ res.scored_is_none

\* the symbols of the shard that STEP1 lets through, read off the fetches
C12_Passing ==
    { k \in 1 .. Len(fetched) :
        /\ fetched[k].name # "" /\ fetched[k].fetch = "df"
        /\ fetched[k].len >= 200 /\ fetched[k].vol5 # 0
        /\ fetched[k].close >= min_close /\ fetched[k].compute = "ok" }

\* C12: no exception leaves main; whatever fails for one symbol (the fetch
\* raises or returns nothing, the scorer raises, the investor lookup falls
\* back to its default, no news is found), every symbol of the shard is
\* visited, the output file is eventually written, and it holds a row for
\* every symbol that did not fail.
C12_NoEscape ==
    /\ [](spc # "raised")
    /\ <>(spc = "written")
    /\ [](spc = "written" =>
            /\ Len(fetched) = chunk_stocks
            /\ out.written
            /\ codes(out.rows) = C12_Passing)

\* C12 witness: the fetch of a symbol raised or the scorer raised on it, and
\* the file holds the row of a symbol visited after that failure.
C12_Witness ==
    /\ spc = "written" /\ out.written
    /\ \E j, k \in 1 .. Len(fetched) :
          /\ j < k
          /\ (fetched[j].fetch = "raise" \/ fetched[j].compute = "raise")
          /\ k \in codes(out.rows)

(***************************************************************************)
(* calculate_signals and score_stock on a whole price history              *)
(* (SpecSeries).  df is a sequence of bars, oldest first.  The rolling     *)
(* means and sums, the where / ffill of find_climax_bar, shift(1) and the  *)
(* tail(n) reductions are computed from the bars.  The columns that come   *)
(* out of bollinger_bands, percentile_rank and adx (upper, bbw_pct, adx)   *)
(* are carried with the bar, indeterminate (NaN) inside their warm-up      *)
(* window.  Closes are multiples of 200 and volumes multiples of 20, so    *)
(* every rolling mean is an integer and exact in double arithmetic.        *)
(***************************************************************************)
Bars == 120

\* cfg defaults, lines 54, 58, 60, 68
bb_length == 60
bandwidth_lookback == 60
adx_len == 14
climax_mult == 5
\* df["Low"].tail(10), sig["vol_explosion"].tail(60)
stop_tail == 10
explosion_tail == 60

None == [none |-> TRUE]

BaseBar ==
    [Open |-> 20000, High |-> 20400, Low |-> 19600, Close |-> 20000,
     Volume |-> 200, upper |-> 24000, bbw_pct |-> 50, adx |-> 10]
ClimaxBar == [BaseBar EXCEPT !.Volume = 4000, !.High = 21000, !.Low = 19000]
ClimaxBarLow0 == [BaseBar EXCEPT !.Volume = 4000, !.High = 20600, !.Low = 0]
QuietBar == [BaseBar EXCEPT !.Volume = 0, !.Low = 19200]
BreakBar ==
    [BaseBar EXCEPT !.Close = 25000, !.High = 25200, !.Volume = 1000,
                    !.bbw_pct = 10, !.adx = 25]
CrossBar ==
    [BaseBar EXCEPT !.Close = 21200, !.High = 21200, !.Volume = 1000, !.adx = 25]
\* the same cross with ADX below adx_min
CrossBarWeak == [CrossBar EXCEPT !.adx = 10]
\* a quiet close just under a narrow band: door_knock and squeeze
KnockBar == [BaseBar EXCEPT !.Close = 23000, !.High = 23200, !.bbw_pct = 10]

\* the indicator columns are NaN on the first bars (rolling(n) needs n bars;
\* the bandwidth percentile needs bandwidth_lookback bandwidths; adx is a
\* rolling mean of a rolling mean)
warm_up(b, t) ==
    [b EXCEPT !.upper = IF t < bb_length THEN NaN ELSE @,
              !.bbw_pct = IF t < bb_length + bandwidth_lookback - 1 THEN NaN ELSE @,
              !.adx = IF t < 2 * adx_len - 1 THEN NaN ELSE @]

\* a history of n bars: BaseBar everywhere but at bar 5, at the bar just
\* outside tail(60), at the bar just outside tail(10), at the last two bars,
\* and on a run of `dry` zero-volume bars ending two bars before the last
Frame(n, k5, k60, k10, k1, k0, dry) ==
    [t \in 1 .. n |->
        warm_up(IF t = n THEN k0
                ELSE IF t = n - 1 THEN k1
                ELSE IF t = n - stop_tail THEN k10
                ELSE IF t = n - explosion_tail THEN k60
                ELSE IF t = 5 THEN k5
                ELSE IF t >= n - 1 - dry /\ t <= n - 2 THEN QuietBar
                ELSE BaseBar, t)]

RECURSIVE sum_of(_, _, _, _)
sum_of(df, col, a, b) ==
    IF a > b THEN 0 ELSE df[b][col] + sum_of(df, col, a, b - 1)

\* col.rolling(w).mean() at bar t
rolling_mean(df, col, w, t) ==
    IF t < w THEN NaN ELSE sum_of(df, col, t - w + 1, t) \div w

\* find_climax_bar, line 41: vol >= mult * vol_avg20
is_climax(vol, vol_avg20) == notna(vol_avg20) /\ vol >= climax_mult * vol_avg20

\* line 81: vol < vol_ma20 * 0.7
vol_dryup(i) == notna(i.vol_ma20) /\ 10 * i.vol < 7 * i.vol_ma20

\* a column as a sequence, bar 1 first
column(f, n) == SubSeq(f, 1, n)

RECURSIVE ffill(_, _, _, _, _)
\* vals.where(mask).ffill() on the bars a .. b; carry is the value filled
\* forward from the bars before a
ffill(vals, mask, a, b, carry) ==
    IF a = b THEN << IF mask[a] THEN vals[a] ELSE carry >>
    ELSE LET mid == (a + b) \div 2
             left == ffill(vals, mask, a, mid, carry)
         IN  left \o ffill(vals, mask, mid + 1, b, left[Len(left)])

\* mutant: where() without ffill(), a non-climax bar is left undefined
find_climax_bar_nofill(df) ==
    LET n == Len(df)
        vol_avg20 == column([t \in 1 .. n |-> rolling_mean(df, "Volume", 20, t)], n)
        mask == column([t \in 1 .. n |-> is_climax(df[t].Volume, vol_avg20[t])], n)
    IN  [climax_high |-> column([t \in 1 .. n |-> IF mask[t] THEN df[t].High ELSE NaN], n),
         climax_low |-> column([t \in 1 .. n |-> IF mask[t] THEN df[t].Low ELSE NaN], n),
         is_climax |-> mask]

\* lines 38-44
find_climax_bar(df) ==
    LET n == Len(df)
        vol_avg20 == column([t \in 1 .. n |-> rolling_mean(df, "Volume", 20, t)], n)
        mask == column([t \in 1 .. n |-> is_climax(df[t].Volume, vol_avg20[t])], n)
        High == column([t \in 1 .. n |-> df[t].High], n)
        Low == column([t \in 1 .. n |-> df[t].Low], n)
    IN  [climax_high |-> ffill(High, mask, 1, n, NaN),
         climax_low |-> ffill(Low, mask, 1, n, NaN),
         is_climax |-> mask]

\* lines 71-91: the values of the signal set at bar t
sig_row(df, vol_ma20, ma20, climax, dry, t) ==
    LET b == df[t]
        \* close.shift(1) <= ma20.shift(1)
        prev_le == t > 1 /\ notna(ma20[t - 1]) /\ df[t - 1].Close <= ma20[t - 1]
        i == [close |-> b.Close, vol |-> b.Volume, upper |-> b.upper,
              bbw_pct |-> b.bbw_pct, adx |-> b.adx, vol_ma20 |-> vol_ma20[t],
              ma20 |-> ma20[t], climax_high |-> climax.climax_high[t],
              prev_le |-> prev_le]
    IN  [ upper |-> b.upper, bbw_pct |-> b.bbw_pct, adx |-> b.adx,
          ma20 |-> ma20[t],
          ma50 |-> rolling_mean(df, "Close", 50, t),
          ma200 |-> rolling_mean(df, "Close", 200, t),
          vol_ma20 |-> vol_ma20[t],
          vol_confirm |-> vol_confirm(i),
          climax_high |-> climax.climax_high[t],
          climax_low |-> climax.climax_low[t],
          is_climax |-> climax.is_climax[t],
          door_knock |-> door_knock(i), squeeze |-> squeeze(i),
          vol_explosion |-> vol_explosion_today(i),
          \* vol_dryup.rolling(15).sum()
          vol_dryup_count |->
              IF t < dryup_window THEN NaN
              ELSE Cardinality({ u \in t - dryup_window + 1 .. t : dry[u] }),
          prev_le |-> prev_le,
          setup_a |-> setup_a(i), setup_b |-> setup_b(i), setup_c |-> setup_c(i) ]

signal_rows(df) ==
    LET n == Len(df)
        vol_ma20 == column([t \in 1 .. n |-> rolling_mean(df, "Volume", 20, t)], n)
        ma20 == column([t \in 1 .. n |-> rolling_mean(df, "Close", 20, t)], n)
        climax == find_climax_bar(df)
        dry == column([t \in 1 .. n |->
                          vol_dryup([vol |-> df[t].Volume, vol_ma20 |-> vol_ma20[t]])], n)
    IN  column([t \in 1 .. n |-> sig_row(df, vol_ma20, ma20, climax, dry, t)], n)

\* lines 46-102; None is the empty signal set
calculate_signals(df) ==
    IF Len(df) < signals_min_len THEN <<>> ELSE signal_rows(df)

\* mutant: the minimum is taken over the whole Low column
Low_tail_min_all(df) ==
    CHOOSE m \in { df[t].Low : t \in 1 .. Len(df) } :
        \A t \in 1 .. Len(df) : m <= df[t].Low

\* line 239: df["Low"].tail(10).min()
Low_tail_min(df) ==
    LET tail == Max(1, Len(df) - stop_tail + 1) .. Len(df)
    IN  CHOOSE m \in { df[t].Low : t \in tail } : \A t \in tail : m <= df[t].Low

\* mutant: any() over the whole column
explosion_before_last_all(rows) ==
    \E t \in 1 .. Len(rows) - 1 : rows[t].vol_explosion

\* line 188: sig["vol_explosion"].tail(60).any(), the bars before the last
explosion_before_last(rows) ==
    \E t \in Max(1, Len(rows) - explosion_tail + 1) .. Len(rows) - 1 :
        rows[t].vol_explosion

\* lines 113-133, 159-163, 188, 193, 236-239: what score_stock reads at `last`
final_bar(a, rows) ==
    LET last == Len(a.df)
        b == a.df[last]
        r == rows[last]
    IN  [ close |-> b.Close, vol |-> b.Volume,
          ma20 |-> r.ma20, ma50 |-> r.ma50, ma200 |-> r.ma200, adx |-> r.adx,
          upper |-> r.upper, bbw_pct |-> r.bbw_pct, prev_le |-> r.prev_le,
          rs_3m |-> a.rs_3m, rs_6m |-> a.rs_6m,
          vol_ma20 |-> r.vol_ma20,
          explosion_prior |-> explosion_before_last(rows),
          dryup_count |-> r.vol_dryup_count,
          investor_data |-> a.investor_data,
          low10 |-> Low_tail_min(a.df),
          index_above_ma20 |-> a.index_above_ma20,
          climax_high |-> r.climax_high, climax_low |-> r.climax_low ]

\* score_stock(df, sig, cfg, ...)
score_stock_df(a, rows) ==
    IF score_stock_is_none(rows = <<>>) THEN None
    ELSE score_stock(final_bar(a, rows))

\* cfg["volume_dryup"]: threshold_pct (in tenths) and lookback_days
DefaultCfg == [volume_dryup |-> [threshold_pct_x10 |-> 7, lookback_days |-> 15]]
OtherCfgs ==
    { [volume_dryup |-> [threshold_pct_x10 |-> 5, lookback_days |-> 15]],
      [volume_dryup |-> [threshold_pct_x10 |-> 7, lookback_days |-> 10]] }

Call(df) ==
    [df |-> df, rs_3m |-> 0, rs_6m |-> 0, investor_data |-> NoData("None"),
     index_above_ma20 |-> TRUE, cfg |-> DefaultCfg]

InitSeries ==
    /\ pc = "input"
    /\ \/ \E k5 \in {BaseBar, ClimaxBar},
             k60 \in {BaseBar, ClimaxBar, ClimaxBarLow0},
             k10 \in {BaseBar, ClimaxBar, QuietBar},
             k1 \in {BaseBar, ClimaxBarLow0, QuietBar},
             k0 \in {BaseBar, QuietBar, BreakBar, CrossBar, CrossBarWeak, ClimaxBar,
                     KnockBar},
             dry \in {0, 3, 5} :
               inp = Call(Frame(Bars, k5, k60, k10, k1, k0, dry))
       \* a configuration that sets volume_dryup away from 0.7 and 15
       \/ \E c \in OtherCfgs, k10 \in {BaseBar, ClimaxBar}, dry \in {3, 5} :
               inp = [Call(Frame(Bars, BaseBar, BaseBar, k10, QuietBar, BaseBar, dry))
                         EXCEPT !.cfg = c]
       \* a history that ends inside the warm-up of the bandwidth percentile
       \/ \E k60 \in {BaseBar, ClimaxBar}, k0 \in {BreakBar, CrossBar} :
               inp = Call(Frame(bb_length + bandwidth_lookback - 2, BaseBar, k60,
                                BaseBar, BaseBar, k0, 0))
       \/ inp = Call(Frame(signals_min_len - 1, BaseBar, BaseBar, BaseBar,
                           BaseBar, BaseBar, 0))
    /\ res = NoRecord /\ prev = NoPrev /\ sig = <<>>
    /\ InvestorIdle /\ MergeIdle /\ ScanIdle

\* sig = calculate_signals(df, cfg)
CalculateSignals ==
    /\ pc = "input"
    /\ sig' = calculate_signals(inp.df)
    /\ pc' = "signals"
    /\ UNCHANGED <<inp, res, prev, investorVars, mergeVars, scanVars>>

\* scored = score_stock(df, sig, cfg)
ScoreStockDf ==
    /\ pc = "signals"
    /\ res' = score_stock_df(inp, sig)
    /\ pc' = "done"
    /\ UNCHANGED <<inp, sig, prev, investorVars, mergeVars, scanVars>>

NextSeries == CalculateSignals \/ ScoreStockDf

SpecSeries == InitSeries /\ [][NextSeries]_vars

\* C13: the returned stop is the forward-filled climax low when Trigger-B is
\* active at the final bar and a climax low exists, otherwise the minimum Low
\* of the last 10 bars; a chosen stop <= 0 is replaced by close x 0.92.
\* (Stated for the records whose risk needs no correction; the others carry
\* close x 0.92 as well.)
C13_StopChoice ==
    (pc = "done" /\ res # None) =>
        LET df == inp.df
            last == Len(df)
            close == df[last].Close
            tail10 == (last - 9) .. last
            low == CHOOSE m \in { df[t].Low : t \in tail10 } :
                       \A t \in tail10 : m <= df[t].Low
            chosen == IF sig[last].setup_b /\ sig[last].climax_low # NaN
                      THEN sig[last].climax_low
                      ELSE low
        IN  IF chosen <= 0 THEN res.stop100 = 92 * close
            ELSE IF close - chosen > 0 /\ 100 * (close - chosen) <= 15 * close
                 THEN res.stop100 = 100 * chosen
            ELSE res.stop100 = 92 * close

\* C13 witness: Trigger-B at the final bar, the stop is the climax low, which
\* is neither the 10-bar low nor the lowest Low of the history.
C13_Witness ==
    /\ pc = "done" /\ res # None
    /\ sig[Len(sig)].setup_b
    /\ res.stop100 = 100 * sig[Len(sig)].climax_low
    /\ sig[Len(sig)].climax_low # Low_tail_min(inp.df)
    /\ Low_tail_min(inp.df) # Low_tail_min_all(inp.df)

\* C16: volume_score = min(20, explosion term + dry-up term + today term);
\* the explosion term is 5 iff one of the last 60 bars has volume >= 3 x its
\* 20-bar average, the dry-up term is 7/5/3/0 for dryup_count >= 5 / >= 3 /
\* >= 1 / 0; without such a bar and with dryup_count = 6 the score is 7 plus
\* the today term.
C16_VolumeScore ==
    (pc = "done" /\ res # None) =>
        LET df == inp.df
            last == Len(df)
            explosion == \E t \in (last - 59) .. last :
                            /\ sig[t].vol_ma20 # NaN
                            /\ df[t].Volume >= 3 * sig[t].vol_ma20
            dryup_count == sig[last].vol_dryup_count
            e == IF explosion THEN 5 ELSE 0
            d == IF dryup_count >= 5 THEN 7
                 ELSE IF dryup_count >= 3 THEN 5
                 ELSE IF dryup_count >= 1 THEN 3
                 ELSE 0
            sum == e + d + res.vol_today
        IN  /\ res.volume_score = (IF sum > 20 THEN 20 ELSE sum)
            /\ (~explosion /\ dryup_count = 6)
                => res.volume_score = 7 + res.vol_today

\* C16 witness: dryup_count = 6 and no explosion bar among the last 60, while
\* the bar just before them is one; the score is 7 + 5.
C16_Witness ==
    /\ pc = "done" /\ res # None
    /\ sig[Len(sig)].vol_dryup_count = 6
    /\ \A t \in (Len(sig) - 59) .. Len(sig) : ~sig[t].vol_explosion
    /\ sig[Len(sig) - 60].vol_explosion
    /\ res.vol_today = 5
    /\ res.volume_score = 12

\* C19: at every bar t, climax_high[t] and climax_low[t] are the High and Low
\* of the latest bar s <= t whose volume is >= climax_mult x its 20-bar volume
\* average, and are undefined when there is no such bar.
C19_ClimaxForwardFill ==
    (pc = "signals" /\ sig # <<>>) =>
        LET df == inp.df
            climaxes == { s \in 20 .. Len(df) :
                            20 * df[s].Volume
                              >= climax_mult * sum_of(df, "Volume", s - 19, s) }
        IN  \A t \in 1 .. Len(sig) :
                LET S == { s \in climaxes : s <= t }
                IN  IF S = {}
                    THEN sig[t].climax_high = NaN /\ sig[t].climax_low = NaN
                    ELSE LET m == CHOOSE s \in S : \A u \in S : u <= s
                         IN  /\ sig[t].climax_high = df[m].High
                             /\ sig[t].climax_low = df[m].Low

\* C19 witness: two climax bars with different highs and lows; the first
\* one's values are carried up to the bar before the second, which replaces
\* them; nothing is defined at the first bar.
C19_Witness ==
    /\ pc = "signals" /\ sig # <<>>
    /\ \E s1, s2 \in 1 .. Len(sig) :
          /\ s1 + 1 < s2 /\ s2 < Len(sig)
          /\ sig[s1].is_climax /\ sig[s2].is_climax
          /\ \A u \in s1 + 1 .. s2 - 1 : ~sig[u].is_climax
          /\ inp.df[s1].High # inp.df[s2].High
          /\ inp.df[s1].Low # inp.df[s2].Low
          /\ sig[s2 - 1].climax_high = inp.df[s1].High
          /\ sig[s2 - 1].climax_low = inp.df[s1].Low
          /\ sig[Len(sig)].climax_high = inp.df[s2].High
          /\ sig[Len(sig)].climax_low = inp.df[s2].Low
    /\ sig[1].climax_high = NaN

\* C20: at every bar, Trigger-A = squeeze and close > upper band and
\* volume-confirm and ADX >= adx_min; Trigger-B = climax_high exists and
\* close > climax_high and volume-confirm; Trigger-C = close > MA20 and
\* previous close <= previous MA20 and volume-confirm and ADX >= adx_min;
\* an undefined operand makes the trigger false.
C20_Triggers ==
    (pc = "signals" /\ sig # <<>>) =>
        \A t \in 1 .. Len(sig) :
            LET b == inp.df[t]
                r == sig[t]
                vol_ok == /\ r.vol_ma20 # NaN
                          /\ 10 * b.Volume >= vol_confirm_mult_x10 * r.vol_ma20
                adx_fine == b.adx # NaN /\ b.adx >= adx_min
                crossed == /\ t > 1
                           /\ r.ma20 # NaN /\ b.Close > r.ma20
                           /\ sig[t - 1].ma20 # NaN
                           /\ inp.df[t - 1].Close <= sig[t - 1].ma20
            IN  /\ r.setup_a <=> /\ b.bbw_pct # NaN /\ b.bbw_pct <= 20
                                 /\ b.upper # NaN /\ b.Close > b.upper
                                 /\ vol_ok /\ adx_fine
                /\ r.setup_b <=> /\ r.climax_high # NaN
                                 /\ b.Close > r.climax_high
                                 /\ vol_ok
                /\ r.setup_c <=> crossed /\ vol_ok /\ adx_fine
                /\ (b.bbw_pct = NaN \/ b.upper = NaN \/ b.adx = NaN
                        \/ r.vol_ma20 = NaN) => ~r.setup_a
                /\ (r.climax_high = NaN \/ r.vol_ma20 = NaN) => ~r.setup_b
                /\ (r.ma20 = NaN \/ b.adx = NaN \/ r.vol_ma20 = NaN
                        \/ (t > 1 /\ sig[t - 1].ma20 = NaN)) => ~r.setup_c

\* C20 witness: at the final bar the close crosses MA20 on confirmed volume
\* with ADX below adx_min, so Trigger-C is off while Trigger-B is on.
C20_Witness ==
    /\ pc = "signals" /\ sig # <<>>
    /\ LET last == Len(sig)
       IN  /\ inp.df[last].Close > sig[last].ma20
           /\ inp.df[last - 1].Close <= sig[last - 1].ma20
           /\ sig[last].vol_confirm
           /\ inp.df[last].adx < adx_min
           /\ ~sig[last].setup_c /\ ~sig[last].setup_a
           /\ sig[last].setup_b

(***************************************************************************)
(* calculate_strategies (SpecStrategies).  a is the record of what the     *)
(* function reads: the final-bar values of sig, the rolling means and the  *)
(* ATR of df, and the last two bars.  Entries and stops are kept in units  *)
(* of 1/10000 so that the products by 1.2, 1.5, 0.95, 0.94, 1.02 and 1.05  *)
(* are integers; a risk percentage is the fraction num / den in lowest     *)
(* terms.                                                                  *)
(***************************************************************************)
strategies_min_len == 20

RECURSIVE gcd(_, _)
gcd(x, y) == IF y = 0 THEN x ELSE gcd(y, x % y)

\* (entry - stop) / entry * 100 if entry > 0 else 99, in lowest terms
risk_pct(entry, stop) ==
    IF entry > 0
    THEN LET g == gcd(entry, entry - stop)
         IN  [num |-> 100 * ((entry - stop) \div g), den |-> entry \div g]
    ELSE [num |-> 99, den |-> 1]

risk_lt(r1, r2) == r1.num * r2.den < r2.num * r1.den

risk_le(r1, r2) == r1.num * r2.den <= r2.num * r1.den

\* lines 317, 320, 332
base_stop(a) ==
    LET climax_low == safe_get(a.climax_low, 0)
    IN  IF climax_low > 0 THEN climax_low ELSE a.swing_low

\* lines 340-353
pullback(a) ==
    LET ma20 == safe_get(a.ma20, a.close)
        climax_low == safe_get(a.climax_low, 0)
        pullback_entry == 10000 * ma20
        stop0 == Max(10000 * base_stop(a), pullback_entry - 12000 * a.atr20)
        pullback_stop == IF stop0 >= pullback_entry
                         THEN 95 * (pullback_entry \div 100)
                         ELSE stop0
    IN  [ type |-> "pullback", name |-> "pullback",
          entry |-> pullback_entry, stop |-> pullback_stop,
          risk |-> risk_pct(pullback_entry, pullback_stop),
          candidate |-> /\ 100 * a.close >= 97 * ma20
                        /\ 100 * a.close <= 105 * ma20
                        /\ climax_low > 0 ]

\* lines 319, 359-374
breakout(a) ==
    LET bb_upper == IF notna(a.upper) THEN 10000 * a.upper ELSE 10500 * a.close
        breakout_entry == IF bb_upper > 10000 * a.close THEN bb_upper
                          ELSE 10200 * a.close
        stop0 == breakout_entry - 15000 * a.atr20
        breakout_stop == IF stop0 >= breakout_entry
                         THEN 95 * (breakout_entry \div 100)
                         ELSE stop0
    IN  [ type |-> "breakout", name |-> "breakout",
          entry |-> breakout_entry, stop |-> breakout_stop,
          risk |-> risk_pct(breakout_entry, breakout_stop),
          candidate |-> door_knock(a) \/ squeeze(a) ]

\* lines 389-405: the first pattern that holds, "" when none does
oneil_pattern(a) ==
    IF a.today.High < a.prev.High /\ a.today.Low > a.prev.Low
    THEN "Inside Day"
    ELSE IF a.today.Open < a.prev.Low /\ a.close > a.prev.Low
    THEN "Oops Reversal"
    ELSE IF a.today.Volume > 2 * a.vol_ma /\ a.close > a.today.Open
    THEN "Pocket Pivot"
    ELSE ""

\* lines 380-411
oneil(a) ==
    LET oneil_entry == 10000 * a.close
        stop0 == Max(10000 * a.ma10, oneil_entry - 10000 * a.atr20)
        oneil_stop == IF stop0 >= oneil_entry
                      THEN 94 * (oneil_entry \div 100)
                      ELSE stop0
    IN  [ type |-> "oneil",
          name |-> IF oneil_pattern(a) # "" THEN oneil_pattern(a) ELSE "oneil",
          entry |-> oneil_entry, stop |-> oneil_stop,
          risk |-> risk_pct(oneil_entry, oneil_stop),
          candidate |-> oneil_pattern(a) # "" ]

\* mutant: the key is the risk alone
key_lt_risk_only(x, y) == risk_lt(x.risk, y.risk)

\* line 416: key(x) < key(y) for key = (not candidate, risk)
key_lt(x, y) ==
    \/ x.candidate /\ ~y.candidate
    \/ x.candidate = y.candidate /\ risk_lt(x.risk, y.risk)

RECURSIVE insert(_, _)
\* x goes before the first element whose key is greater (list.sort is stable)
insert(sorted, x) ==
    IF sorted = <<>> THEN <<x>>
    ELSE IF key_lt(x, sorted[Len(sorted)])
         THEN Append(insert(SubSeq(sorted, 1, Len(sorted) - 1), x),
                     sorted[Len(sorted)])
         ELSE Append(sorted, x)

RECURSIVE sort(_)
sort(strategies) ==
    IF strategies = <<>> THEN <<>>
    ELSE insert(sort(SubSeq(strategies, 1, Len(strategies) - 1)),
                strategies[Len(strategies)])

\* lines 299-442
calculate_strategies(a) ==
    IF a.df_none \/ a.sig_none \/ a.len < strategies_min_len THEN None
    ELSE LET strategies == sort(<< pullback(a), breakout(a), oneil(a) >>)
             ranked == [k \in 1 .. 3 |-> strategies[k] @@ [rank |-> k]]
         IN  [ strategies |-> ranked,
               strat1_type |-> ranked[1].type, strat1_name |-> ranked[1].name,
               strat1_entry |-> ranked[1].entry, strat1_stop |-> ranked[1].stop,
               strat1_risk |-> ranked[1].risk,
               strat2_type |-> ranked[2].type, strat2_name |-> ranked[2].name,
               strat2_entry |-> ranked[2].entry, strat2_stop |-> ranked[2].stop,
               strat2_risk |-> ranked[2].risk,
               strat3_type |-> ranked[3].type, strat3_name |-> ranked[3].name,
               strat3_entry |-> ranked[3].entry, strat3_stop |-> ranked[3].stop,
               strat3_risk |-> ranked[3].risk ]

\* the last two bars: today closes at 20000
Todays ==
    { [Open |-> o, High |-> 20400, Low |-> 19600, Volume |-> v] :
        o \in {19600, 20200}, v \in {200, 500} }

Prevs ==
    { [High |-> 20600, Low |-> 19400, Close |-> 20000],
      [High |-> 20200, Low |-> 19800, Close |-> 20000],
      [High |-> 20300, Low |-> 19000, Close |-> 19200] }

StrategyInputs ==
    { [ df_none |-> FALSE, sig_none |-> FALSE, len |-> Bars, close |-> 20000,
        ma20 |-> ma20, ma10 |-> ma10, upper |-> upper, bbw_pct |-> bbw_pct,
        climax_low |-> climax_low, atr20 |-> atr20,
        swing_low |-> Min(19400, p.Low),
        today |-> today, prev |-> p, vol_ma |-> 200 ] :
        ma20 \in {NaN, 19000, 20000, 21000},
        ma10 \in {19400, 19800, 20000},
        upper \in {NaN, 19800, 24000},
        bbw_pct \in {NaN, 10, 50},
        climax_low \in {NaN, 19000, 19800},
        atr20 \in {0, 200, 1000, 16000},
        today \in Todays, p \in Prevs }

\* a halted listing whose prices are all zero
ZeroInput ==
    [ df_none |-> FALSE, sig_none |-> FALSE, len |-> Bars, close |-> 0,
      ma20 |-> 0, ma10 |-> 0, upper |-> 0, bbw_pct |-> NaN, climax_low |-> NaN,
      atr20 |-> 0, swing_low |-> 0,
      today |-> [Open |-> 0, High |-> 0, Low |-> 0, Volume |-> 0],
      prev |-> [High |-> 0, Low |-> 0, Close |-> 0], vol_ma |-> 0 ]

InitStrategies ==
    /\ pc = "input"
    /\ \/ inp \in StrategyInputs
       \/ inp = ZeroInput
       \/ \E df_none, sig_none \in BOOLEAN, len \in {strategies_min_len - 1, Bars} :
             /\ df_none \/ sig_none \/ len < strategies_min_len
             /\ inp = [ZeroInput EXCEPT !.df_none = df_none,
                                        !.sig_none = sig_none, !.len = len]
    /\ res = NoRecord /\ prev = NoPrev /\ sig = <<>>
    /\ InvestorIdle /\ MergeIdle /\ ScanIdle

\* strat = calculate_strategies(df, sig, cfg)
CalculateStrategies ==
    /\ pc = "input"
    /\ res' = calculate_strategies(inp)
    /\ pc' = "done"
    /\ UNCHANGED <<inp, sig, prev, investorVars, mergeVars, scanVars>>

NextStrategies == CalculateStrategies

SpecStrategies == InitStrategies /\ [][NextStrategies]_vars

\* C18: the three candidates are ranked 1, 2, 3 so that every active one
\* (candidate = true) is above every inactive one and, within the same
\* activity tier, a higher rank never has a larger risk percentage;
\* strat1 / strat2 / strat3 are the candidates in that order.
C18_Ranking ==
    (pc = "done" /\ res # None) =>
        LET st == res.strategies
        IN  /\ { st[k].type : k \in 1 .. 3 } = {"pullback", "breakout", "oneil"}
            /\ \A k \in 1 .. 3 :
                  /\ st[k].rank = k
                  /\ st[k] = [rank |-> k]
                             @@ (CHOOSE x \in {pullback(inp), breakout(inp), oneil(inp)} :
                                    x.type = st[k].type)
            /\ \A j, k \in 1 .. 3 : j < k =>
                  /\ st[k].candidate => st[j].candidate
                  /\ (st[j].candidate = st[k].candidate)
                        => risk_le(st[j].risk, st[k].risk)
            /\ res.strat1_type = st[1].type /\ res.strat1_name = st[1].name
            /\ res.strat1_entry = st[1].entry /\ res.strat1_stop = st[1].stop
            /\ res.strat1_risk = st[1].risk
            /\ res.strat2_type = st[2].type /\ res.strat2_name = st[2].name
            /\ res.strat2_entry = st[2].entry /\ res.strat2_stop = st[2].stop
            /\ res.strat2_risk = st[2].risk
            /\ res.strat3_type = st[3].type /\ res.strat3_name = st[3].name
            /\ res.strat3_entry = st[3].entry /\ res.strat3_stop = st[3].stop
            /\ res.strat3_risk = st[3].risk

\* C18 witness: the only active candidate is ranked first although both
\* inactive ones carry a smaller risk, and the two inactive ones are ordered
\* by risk against their order of construction.
C18_Witness ==
    /\ pc = "done" /\ res # None
    /\ LET st == res.strategies
       IN  /\ st[1].candidate /\ ~st[2].candidate /\ ~st[3].candidate
           /\ risk_lt(st[2].risk, st[1].risk)
           /\ risk_lt(st[2].risk, st[3].risk)
           /\ st[1].type = "oneil" /\ st[2].type = "breakout"
           /\ st[3].type = "pullback"

\* C21 (as claimed): the tag R is assigned only if the final bar closes above
\* the upper band and one of the 60 bars before it did so too.
C21_ReBreakout ==
    (pc = "done" /\ res # None /\ res.setup = "R") =>
        LET df == inp.df
            last == Len(df)
            broke(t) == df[t].upper # NaN /\ df[t].Close > df[t].upper
        IN  /\ broke(last)
            /\ \E t \in Max(1, last - 60) .. last - 1 : broke(t)

\* C22 (as claimed): a bar is dry iff volume < threshold_pct x its 20-bar
\* average, and dryup_count is the number of dry bars among the trailing
\* lookback_days bars, for the configured threshold_pct and lookback_days.
C22_DryupHonoursConfig ==
    (pc = "signals" /\ sig # <<>>) =>
        LET c == inp.cfg.volume_dryup
            dry(u) == /\ sig[u].vol_ma20 # NaN
                      /\ 10 * inp.df[u].Volume < c.threshold_pct_x10 * sig[u].vol_ma20
        IN  \A t \in c.lookback_days .. Len(sig) :
                sig[t].vol_dryup_count
                    = Cardinality({ u \in t - c.lookback_days + 1 .. t : dry(u) })

\* C23 (as claimed): every returned candidate with entry > 0 has its stop
\* strictly below its entry and a risk percentage in (0, 100]; the pullback
\* stop is max(climax low or 10-bar swing low, MA20 - 1.2 x ATR20), replaced
\* by 0.95 x entry when that is >= entry.
C23_StopBelowEntry ==
    (pc = "done" /\ res # None) =>
        /\ \A k \in 1 .. 3 :
              LET x == res.strategies[k]
              IN  x.entry > 0 =>
                      /\ x.stop < x.entry
                      /\ x.risk.num > 0
                      /\ x.risk.num <= 100 * x.risk.den
        /\ \E k \in 1 .. 3 :
              LET x == res.strategies[k]
                  ma20 == IF inp.ma20 # NaN THEN inp.ma20 ELSE inp.close
                  low == IF inp.climax_low # NaN /\ inp.climax_low > 0
                         THEN inp.climax_low ELSE inp.swing_low
                  raw == Max(10000 * low, 10000 * ma20 - 12000 * inp.atr20)
              IN  /\ x.type = "pullback"
                  /\ x.entry = 10000 * ma20
                  /\ x.stop = IF raw >= x.entry THEN 9500 * ma20 ELSE raw

\* C24 (as claimed): the oneil candidate is active exactly when Inside Day,
\* Gap (Oops) Reversal or Volume (Pocket) Pivot holds, the last one being
\* volume > 2 x 20-bar average and close >= 1.04 x yesterday's close; the
\* name reported is the first pattern that holds, in that order.
C24_PivotPatterns ==
    (pc = "done" /\ res # None) =>
        LET x == CHOOSE y \in { res.strategies[k] : k \in 1 .. 3 } : y.type = "oneil"
            inside == /\ inp.today.High < inp.prev.High
                      /\ inp.today.Low > inp.prev.Low
            gap == inp.today.Open < inp.prev.Low /\ inp.close > inp.prev.Low
            pivot == /\ inp.today.Volume > 2 * inp.vol_ma
                     /\ 100 * inp.close >= 104 * inp.prev.Close
        IN  /\ x.candidate <=> (inside \/ gap \/ pivot)
            /\ inside => x.name = "Inside Day"
            /\ (~inside /\ gap) => x.name = "Oops Reversal"
            /\ (~inside /\ ~gap /\ pivot) => x.name = "Pocket Pivot"

(***************************************************************************)
(* update_daily.main, lines 219-225: the shard of one run (SpecShard).     *)
(* The listing is the sequence 1 .. n_stocks in market-cap order; one run  *)
(* of main per chunk index, each visiting all rows of its chunk_stocks.    *)
(***************************************************************************)
MaxStocks == 6
MaxChunkSize == 3

\* mutant: the slice includes row end_i
iloc_inclusive(rows, start_i, end_i) ==
    SubSeq(rows, start_i + 1, Min(end_i + 1, Len(rows)))

\* rows.iloc[start_i:end_i] for 0 <= start_i <= end_i
iloc(rows, start_i, end_i) == SubSeq(rows, start_i + 1, Min(end_i, Len(rows)))

\* stocks.head(top_n)
all_top(a) == head([k \in 1 .. a.n_stocks |-> k], a.top_n)

\* lines 223-224 for SCAN_CHUNK = chunk
chunk_rows(a, chunk) ==
    LET start_i == (chunk - 1) * a.chunk_size
        end_i == chunk * a.chunk_size
    IN  iloc(all_top(a), start_i, end_i)

ShardInputs ==
    { a \in [n_stocks : 1 .. MaxStocks, top_n : 1 .. MaxStocks,
             chunk_size : 1 .. MaxChunkSize, chunks : 1 .. MaxStocks + 1] :
        /\ a.chunks * a.chunk_size >= a.top_n
        /\ (a.chunks - 2) * a.chunk_size < a.top_n }

InitShard ==
    /\ pc = "input" /\ inp \in ShardInputs
    /\ res = [chunk |-> 1, evaluated |-> <<>>]
    /\ prev = NoPrev /\ sig = <<>>
    /\ InvestorIdle /\ MergeIdle /\ ScanIdle

\* one run of main with SCAN_CHUNK = res.chunk
RunChunk ==
    /\ pc = "input"
    /\ res' = [chunk |-> res.chunk + 1,
               evaluated |-> res.evaluated \o chunk_rows(inp, res.chunk)]
    /\ pc' = IF res.chunk = inp.chunks THEN "done" ELSE pc
    /\ UNCHANGED <<inp, sig, prev, investorVars, mergeVars, scanVars>>

NextShard == RunChunk

SpecShard == InitShard /\ [][NextShard]_vars

\* C25: for chunk_size >= 1 and chunks 1 .. K with K x chunk_size >= top_n,
\* the slices are pairwise disjoint and their union is the first top_n
\* symbols: no symbol is evaluated twice, and when all chunks have run every
\* one of the first top_n symbols has been evaluated exactly once.
C25_ShardsPartition ==
    pc \in {"input", "done"} =>
        LET ev == res.evaluated
            first == 1 .. Min(inp.top_n, inp.n_stocks)
        IN  /\ \A j, k \in 1 .. Len(ev) : j # k => ev[j] # ev[k]
            /\ \A j, k \in 1 .. inp.chunks : j # k =>
                  { chunk_rows(inp, j)[x] : x \in 1 .. Len(chunk_rows(inp, j)) }
                  \cap { chunk_rows(inp, k)[x] : x \in 1 .. Len(chunk_rows(inp, k)) }
                  = {}
            /\ pc = "done" =>
                  /\ { ev[j] : j \in 1 .. Len(ev) } = first
                  /\ Len(ev) = Cardinality(first)

\* C25 witness: three chunks, the last one partial, over a listing longer
\* than top_n; five symbols evaluated.
C25_Witness ==
    /\ pc = "done"
    /\ inp = [n_stocks |-> 6, top_n |-> 5, chunk_size |-> 2, chunks |-> 3]
    /\ res.evaluated = <<1, 2, 3, 4, 5>>

(***************************************************************************)
(* SpecRisk: score_stock called twice, on any two combinations of bars and *)
(* index regime; prev remembers the first call.                            *)
(***************************************************************************)
RiskInputs ==
    { t @@ p @@ v @@ NoSupply @@
      [close |-> c, low10 |-> l, index_above_ma20 |-> x,
       climax_high |-> NaN, climax_low |-> NaN] :
        t \in {[ma20 |-> 110, ma50 |-> 110, ma200 |-> 110, adx |-> 0]},
        p \in {[upper |-> NaN, bbw_pct |-> NaN, prev_le |-> FALSE,
                rs_3m |-> 0, rs_6m |-> 0]},
        v \in {[vol |-> 0, vol_ma20 |-> 10, explosion_prior |-> FALSE,
                dryup_count |-> 0]},
        c \in Closes, l \in Lows, x \in BOOLEAN }

InitRisk ==
    /\ pc = "input" /\ inp \in RiskInputs /\ res = NoRecord /\ prev = NoPrev
    /\ sig = <<>>
    /\ InvestorIdle /\ MergeIdle /\ ScanIdle

\* the next call of score_stock
NextRiskCall ==
    /\ pc = "done" /\ prev = NoPrev
    /\ prev' = [close |-> inp.close, low10 |-> inp.low10,
                index_above_ma20 |-> inp.index_above_ma20,
                risk_num |-> res.risk_num, risk_den |-> res.risk_den,
                risk_score |-> res.risk_score]
    /\ inp' \in RiskInputs
    /\ res' = NoRecord
    /\ pc' = "input"
    /\ UNCHANGED <<sig, investorVars, mergeVars, scanVars>>

NextRisk == ScoreStock \/ NextRiskCall

SpecRisk == InitRisk /\ [][NextRisk]_vars

\* C26: on the same bars the deduction under a weak index (index_above_ma20
\* False) is min(10, 2 x the normal deduction); under either regime a larger
\* risk percentage never earns a larger risk_score.
C26_WeakIsDoubled ==
    (pc = "done" /\ prev # NoPrev) =>
        LET normal == 10 - prev.risk_score
            weak == 10 - res.risk_score
        IN  /\ ( /\ prev.close = inp.close /\ prev.low10 = inp.low10
                 /\ prev.index_above_ma20 /\ ~inp.index_above_ma20 )
                  => weak = Min(10, 2 * normal)
            /\ ( /\ prev.index_above_ma20 = inp.index_above_ma20
                 /\ prev.risk_num * res.risk_den < res.risk_num * prev.risk_den )
                  => res.risk_score <= prev.risk_score

\* C26 witness: a risk between 8 and 9 percent costs 5 points under a normal
\* index and all 10 under a weak one.
C26_Witness ==
    /\ pc = "done" /\ prev # NoPrev
    /\ prev.close = inp.close /\ prev.low10 = inp.low10
    /\ prev.index_above_ma20 /\ ~inp.index_above_ma20
    /\ 100 * res.risk_num > 8 * res.risk_den
    /\ 100 * res.risk_num <= 9 * res.risk_den
    /\ prev.risk_score = 5 /\ res.risk_score = 0

(***************************************************************************)
(* percentile_rank (SpecPercentile).  s is a sequence of values, NaN where *)
(* undefined; a rank is the fraction num / den of                          *)
(* 100.0 * (count - 1) / (len - 1).                                        *)
(***************************************************************************)
MaxSeries == 4
MaxLookback == 3

\* np.nan as a rank
NaNRank == [num |-> NaN, den |-> NaN]

RECURSIVE np_sum_le(_, _, _)
\* np.sum(x <= last) over the first n values of x
np_sum_le(x, last, n) ==
    IF n = 0 THEN 0
    ELSE (IF x[n] <= last THEN 1 ELSE 0) + np_sum_le(x, last, n - 1)

\* mutant: the value itself is not taken out of the count
pct_nominus(x) ==
    IF Len(x) < 2 THEN NaNRank
    ELSE [num |-> 100 * np_sum_le(x, x[Len(x)], Len(x)), den |-> Len(x) - 1]

\* lines 16-18
pct(x) ==
    IF Len(x) < 2 THEN NaNRank
    ELSE [num |-> 100 * (np_sum_le(x, x[Len(x)], Len(x)) - 1), den |-> Len(x) - 1]

\* line 19: s.rolling(lookback).apply(pct, raw=True); a window that is not
\* full or holds a NaN gives NaN without pct being called
percentile_rank(s, lookback) ==
    [t \in 1 .. Len(s) |->
        IF t < lookback THEN NaNRank
        ELSE LET x == SubSeq(s, t - lookback + 1, t)
             IN  IF \E u \in 1 .. Len(x) : x[u] = NaN THEN NaNRank ELSE pct(x)]

RECURSIVE SeqsUpTo(_, _)
SeqsUpTo(V, n) ==
    IF n = 0 THEN { <<>> }
    ELSE LET shorter == SeqsUpTo(V, n - 1)
         IN  shorter \cup { Append(q, v) : q \in { r \in shorter : Len(r) = n - 1 },
                                          v \in V }

InitPercentile ==
    /\ pc = "input"
    /\ \E s \in SeqsUpTo({NaN, 1, 2, 3}, MaxSeries), lookback \in 1 .. MaxLookback :
          inp = [s |-> s, lookback |-> lookback]
    /\ res = NoRecord /\ prev = NoPrev /\ sig = <<>>
    /\ InvestorIdle /\ MergeIdle /\ ScanIdle

\* bbw_pct = percentile_rank(bbw, lookback)
PercentileRank ==
    /\ pc = "input"
    /\ res' = percentile_rank(inp.s, inp.lookback)
    /\ pc' = "done"
    /\ UNCHANGED <<inp, sig, prev, investorVars, mergeVars, scanVars>>

NextPercentile == PercentileRank

SpecPercentile == InitPercentile /\ [][NextPercentile]_vars

\* C27: on a full window of lookback >= 2 defined values the rank is
\* 100 x (number of window values <= the last one, minus 1) / (lookback - 1),
\* which lies in [0, 100], is 0 when the last value is the strict minimum and
\* 100 when it is the maximum; with lookback < 2 the result is undefined.
C27_PercentileRank ==
    pc = "done" =>
        \A t \in 1 .. Len(inp.s) :
            LET n == inp.lookback
                window == (t - n + 1) .. t
                full == t >= n /\ \A u \in window : inp.s[u] # NaN
                count == Cardinality({ u \in window : inp.s[u] <= inp.s[t] })
            IN  /\ (full /\ n >= 2) =>
                      /\ res[t] # NaNRank
                      /\ res[t].den = n - 1
                      /\ res[t].num = 100 * (count - 1)
                      /\ res[t].num >= 0 /\ res[t].num <= 100 * res[t].den
                      /\ (\A u \in window \ {t} : inp.s[u] > inp.s[t])
                            => res[t].num = 0
                      /\ (\A u \in window : inp.s[u] <= inp.s[t])
                            => res[t].num = 100 * res[t].den
                /\ n < 2 => res[t] = NaNRank

\* C27 witness: over 3 values the last one is ranked 0 as strict minimum and
\* 100 as maximum; the second bar has no full window.
C27_Witness ==
    /\ pc = "done"
    /\ inp.lookback = 3 /\ Len(inp.s) = 4
    /\ inp.s = <<2, 3, 1, 3>>
    /\ res[3] = [num |-> 0, den |-> 2]
    /\ res[4] = [num |-> 200, den |-> 2]
    /\ res[2] = NaNRank

\* C28: trend, volume and supply scores equal the sum of their awarded
\* components, which never exceeds 25, 20 and 15; the risk deduction is at
\* most 10 and risk_score = 10 - deduction; the pattern components sum to at
\* most 35 and pattern_score is that sum capped at 30.
C28_OnlyPatternCapBinds ==
    pc = "done" =>
        LET d == res.score_details
            trend == d.trend_ma20 + d.trend_ma50 + d.trend_ma200
                     + d.trend_align_20_50 + d.trend_align_50_200 + d.trend_adx
            pattern == d.pat_door_knock + d.pat_squeeze + d.pat_setup
                       + d.pat_rs_3m + d.pat_rs_6m
            volume == d.vol_explosion + d.vol_dryup + d.vol_today
            supply == d.sup_foreign_consec + d.sup_inst_net + d.sup_foreign_net
        IN  /\ trend <= 25 /\ res.trend_score = trend
            /\ volume <= 20 /\ res.volume_score = volume
            /\ supply <= 15 /\ res.supply_score = supply
            /\ d.risk_deduction <= 10 /\ res.risk_score = 10 - d.risk_deduction
            /\ pattern <= 35
            /\ res.pattern_score = (IF pattern > 30 THEN 30 ELSE pattern)

\* C28 witness: every pattern component is awarded (35 points, capped to
\* 30) while volume and supply reach their maxima of 20 and 15 uncapped.
C28_Witness ==
    /\ pc = "done"
    /\ LET d == res.score_details
       IN  /\ d.pat_door_knock + d.pat_squeeze + d.pat_setup
                + d.pat_rs_3m + d.pat_rs_6m = 35
           /\ d.vol_explosion + d.vol_dryup + d.vol_today = 20
           /\ d.sup_foreign_consec + d.sup_inst_net + d.sup_foreign_net = 15
    /\ res.pattern_score = 30 /\ res.volume_score = 20 /\ res.supply_score = 15

(***************************************************************************)
(* SpecRescore: one symbol through both passes of update_daily.main under  *)
(* a configured scoring.supply_weight, next to score_stock called with the *)
(* investor record the second pass fetched.                                *)
(***************************************************************************)
SupplyWeights == {10, 15, 20}

RescoreInputs ==
    { scan_input(v, c) @@ [inv |-> d, cfg |-> [scoring |-> [supply_weight |-> w]]] :
        v \in VolCoarse, c \in {1000, 20000},
        d \in InvestorRecords \cup {DefaultRecord}, w \in SupplyWeights }

InitRescore ==
    /\ pc = "input" /\ inp \in RescoreInputs /\ res = NoRecord /\ prev = NoPrev
    /\ sig = <<>>
    /\ InvestorIdle /\ MergeIdle /\ ScanIdle

\* lines 271-292 on the row of the first pass; core is
\* score_stock(df, sig, cfg, investor_data=inv)
Rescore ==
    /\ pc = "done"
    /\ prev' = [final |-> final_row_w([code |-> 1] @@ res, inp.inv,
                                      [keywords |-> "", news_count |-> 0],
                                      inp.cfg.scoring.supply_weight),
                core |-> score_stock([inp EXCEPT !.investor_data = inp.inv])]
    /\ pc' = "rescored"
    /\ UNCHANGED <<inp, res, sig, investorVars, mergeVars, scanVars>>

NextRescore == ScoreStock \/ Rescore

SpecRescore == InitRescore /\ [][NextRescore]_vars

\* C29 (as claimed): for every investor record and every configured
\* supply_weight, the supply_score of the second pass equals the one
\* score_stock computes from the same record, and the stored total_score is
\* the sum of the five stored sub-scores and lies in [0, 100].
C29_RescoreAgrees ==
    pc = "rescored" =>
        LET f == prev.final
        IN  /\ f.supply_score = prev.core.supply_score
            /\ f.total_score = f.trend_score + f.pattern_score + f.volume_score
                               + f.supply_score + f.risk_score
            /\ f.total_score >= 0 /\ f.total_score <= 100

\* the number of attempts on the source of log[k] up to and including log[k]
nth_on_source(k) ==
    Cardinality({ j \in 1 .. k : log[j].source = log[k].source })

\* C30: within one call, a request error on a source is followed by another
\* attempt on the same source unless it was that source's third attempt;
\* time.sleep(1) is called after a request error on the first or second
\* attempt and never after the third; a parse error ends the attempts on its
\* source and passes to the next tier; a record ends the call, no request
\* follows it.
C30_RetryPolicy ==
    /\ \A k \in 1 .. Len(log) :
          LET s == log[k].source
              o == log[k].outcome
              is_last == k = Len(log)
          IN  /\ (o = "request_error" /\ nth_on_source(k) < 3) =>
                    IF is_last THEN ipc = s ELSE log[k + 1].source = s
              /\ (o = "request_error" /\ nth_on_source(k) = 3) =>
                    \A j \in k + 1 .. Len(log) : log[j].source # s
              /\ o = "parse_error" =>
                    /\ \A j \in k + 1 .. Len(log) : log[j].source # s
                    /\ IF s = "naver"
                       THEN IF is_last THEN ipc = "daum"
                            ELSE log[k + 1].source = "daum"
                       ELSE is_last /\ ipc = "done" /\ source = "default"
              /\ o = "record" => is_last /\ ipc = "done" /\ source = s
    /\ \A s \in Sources :
          sleeps[s] = Cardinality({ k \in 1 .. Len(log) :
                                      /\ log[k].source = s
                                      /\ log[k].outcome = "request_error"
                                      /\ nth_on_source(k) < 3 })

\* C30 witness: three request errors on Naver (two sleeps), then a request
\* error and a parse error on Daum (one sleep), and the default is returned
\* after five requests.
C30_Witness ==
    /\ ipc = "done" /\ source = "default"
    /\ Len(log) = 5
    /\ \A k \in 1 .. 3 : log[k] = [source |-> "naver", outcome |-> "request_error"]
    /\ log[4] = [source |-> "daum", outcome |-> "request_error"]
    /\ log[5] = [source |-> "daum", outcome |-> "parse_error"]
    /\ sleeps = [naver |-> 2, daum |-> 1]
====
